---------------------------- MODULE Spec2Model ----------------------------
(***************************************************************************)
(* Skill registry, discovery tool and per-conversation tool manager of the *)
(* chat application (src/src/lib/skills, src/src/app/api/chat/route.ts).   *)
(*                                                                         *)
(* Strings that the code inspects character by character (names, keywords, *)
(* descriptions, queries) are sequences of one-character strings; ids,     *)
(* tiers, categories and tool handles, which the code only compares for    *)
(* equality, are TLA+ strings.  An optional value (x?: T) is <<>> when     *)
(* undefined and <<v>> when set.                                           *)
(***************************************************************************)
EXTENDS Integers, Sequences, FiniteSets, TLC

VARIABLES
    skills,      \* SkillRegistry.skills: the Map, as a sequence in insertion order
    managers,    \* conversationManagers: conversation key -> manager state or NoManager
    requests,    \* chat requests in flight (POST /api/chat), one per slot
    discovered,  \* per conversation: skillIds returned by its latest discover_skills call
    lastOp       \* the call that produced this state: its name and skill-id arguments

vars == <<skills, managers, requests, discovered, lastOp>>

---------------------------------------------------------------------------
(* Bounds *)

MaxHistory == 2     \* longest discoveryHistory explored
MaxInFlight == 2    \* chat requests in flight at once

---------------------------------------------------------------------------
(* Characters and strings *)

Upper == <<"A","B","C","D","E","F","G","H","I","J","K","L","M",
           "N","O","P","Q","R","S","T","U","V","W","X","Y","Z">>
Lower == <<"a","b","c","d","e","f","g","h","i","j","k","l","m",
           "n","o","p","q","r","s","t","u","v","w","x","y","z">>

UpperSet == {Upper[i] : i \in 1..Len(Upper)}
LowerSet == {Lower[i] : i \in 1..Len(Lower)}

\* the lower-case letter of every upper-case letter
ToLowerMap == [ch \in UpperSet |-> Lower[CHOOSE i \in 1..Len(Upper) : Upper[i] = ch]]

\* the place of every lower-case letter in the alphabet
AlphabetIndex == [ch \in LowerSet |-> CHOOSE i \in 1..Len(Lower) : Lower[i] = ch]

IsUpper(ch) == ch \in UpperSet

LowerChar(ch) == IF ch \in UpperSet THEN ToLowerMap[ch] ELSE ch

IsSpace(ch) == ch \in {" ", "\t", "\n"}

\* String.prototype.toLowerCase
ToLowerCase(s) == [i \in 1..Len(s) |-> LowerChar(s[i])]

RECURSIVE TrimStart(_)
TrimStart(s) ==
    IF s # <<>> /\ IsSpace(Head(s)) THEN TrimStart(Tail(s)) ELSE s

RECURSIVE TrimEnd(_)
TrimEnd(s) ==
    IF s # <<>> /\ IsSpace(s[Len(s)]) THEN TrimEnd(SubSeq(s, 1, Len(s) - 1)) ELSE s

\* String.prototype.trim
Trim(s) == TrimEnd(TrimStart(s))

\* s.split(/\s+/): the pieces between maximal runs of whitespace, empty
\* pieces at the two ends included.  cur is the piece being read, inGap
\* tells whether the previous character was whitespace.
RECURSIVE SplitLoop(_, _, _, _)
SplitLoop(s, cur, inGap, acc) ==
    IF s = <<>> THEN Append(acc, cur)
    ELSE IF IsSpace(Head(s))
         THEN IF inGap THEN SplitLoop(Tail(s), <<>>, TRUE, acc)
                       ELSE SplitLoop(Tail(s), <<>>, TRUE, Append(acc, cur))
         ELSE SplitLoop(Tail(s), Append(cur, Head(s)), FALSE, acc)

SplitWhitespace(s) == SplitLoop(s, <<>>, FALSE, <<>>)

\* a filter that keeps the empty strings
FilterBooleanKeepAll(parts) == parts

\* Array.prototype.filter(Boolean) on strings: drops the empty ones
RECURSIVE FilterBoolean(_)
FilterBoolean(parts) ==
    IF parts = <<>> THEN <<>>
    ELSE IF Head(parts) = <<>> THEN FilterBoolean(Tail(parts))
         ELSE <<Head(parts)>> \o FilterBoolean(Tail(parts))

\* String.prototype.includes
Includes(s, t) ==
    \E i \in 0..(Len(s) - Len(t)) : SubSeq(s, i + 1, i + Len(t)) = t

---------------------------------------------------------------------------
(* Skill configurations offered for registration *)

Tiers == {"core", "enhanced", "network", "integration"}
Categories == {"productivity", "developer", "network", "integrations"}

DISCOVER == "discover_skills"
discoverSkillsTool == "discoverSkillsTool"

calculatorSkillConfig ==
    [ id |-> "calculator",
      name |-> <<"C","a","l","c","u","l","a","t","o","r">>,
      description |-> <<"E","v","a","l","u","a","t","e"," ","m","a","t","h">>,
      keywords |-> << <<"m","a","t","h">>, <<"c","a","l","c","u","l","a","t","e">> >>,
      tier |-> "core", category |-> "productivity",
      requiresApproval |-> <<>>, requiresNetwork |-> <<>>, defaultEnabled |-> <<>>,
      tool |-> "calculatorTool" ]

webSearchSkillConfig ==
    [ id |-> "web_search",
      name |-> <<"W","e","b"," ","S","e","a","r","c","h">>,
      description |-> <<"S","e","a","r","c","h"," ","t","h","e"," ","w","e","b">>,
      keywords |-> << <<"s","e","a","r","c","h">>, <<"w","e","b">> >>,
      tier |-> "network", category |-> "network",
      requiresApproval |-> <<>>, requiresNetwork |-> <<TRUE>>, defaultEnabled |-> <<>>,
      tool |-> "webSearchTool" ]

\* a skill whose id is the well-known name of the discovery tool
shadowSkillConfig ==
    [ id |-> DISCOVER,
      name |-> <<"M","a","t","h"," ","F","i","n","d","e","r">>,
      description |-> <<"F","i","n","d"," ","m","a","t","h">>,
      keywords |-> << <<"f","i","n","d">>, <<"m","a","t","h","s">> >>,
      tier |-> "core", category |-> "developer",
      requiresApproval |-> <<>>, requiresNetwork |-> <<>>, defaultEnabled |-> <<>>,
      tool |-> "shadowTool" ]

Configs == {calculatorSkillConfig, webSearchSkillConfig, shadowSkillConfig}

\* an id no configuration carries
UNKNOWN == "no_such_skill"

\* the configurations and ids the manager is exercised with
CoreConfigs == {calculatorSkillConfig, shadowSkillConfig}

SkillIds == {c.id : c \in CoreConfigs} \cup {UNKNOWN}


---------------------------------------------------------------------------
(* SkillRegistry (registry.ts) *)

\* a ?? b on an optional value
OrElse(opt, dflt) == IF opt = <<>> THEN dflt ELSE opt[1]

\* a SkillDefinition whose flags follow the tier alone
SkillDefinitionByTier(config) ==
    [ id |-> config.id,
      name |-> config.name,
      description |-> config.description,
      keywords |-> config.keywords,
      tier |-> config.tier,
      category |-> config.category,
      requiresApproval |-> OrElse(config.requiresApproval, FALSE),
      requiresNetwork |-> OrElse(config.requiresNetwork, FALSE),
      defaultEnabled |-> config.tier = "core" \/ config.tier = "enhanced",
      enabled |-> config.tier = "core" \/ config.tier = "enhanced",
      type |-> "builtin",
      tool |-> <<config.tool>> ]

\* the SkillDefinition register() builds from a SkillConfig
SkillDefinition(config) ==
    [ id |-> config.id,
      name |-> config.name,
      description |-> config.description,
      keywords |-> config.keywords,
      tier |-> config.tier,
      category |-> config.category,
      requiresApproval |-> OrElse(config.requiresApproval, FALSE),
      requiresNetwork |-> OrElse(config.requiresNetwork, FALSE),
      defaultEnabled |->
          OrElse(config.defaultEnabled, config.tier = "core" \/ config.tier = "enhanced"),
      enabled |->
          OrElse(config.defaultEnabled, config.tier = "core" \/ config.tier = "enhanced"),
      type |-> "builtin",
      tool |-> <<config.tool>> ]

\* Map.prototype.has / get on the registry map; get gives <<>> for undefined
has(reg, id) == \E i \in 1..Len(reg) : reg[i].id = id

get(reg, id) ==
    IF has(reg, id) THEN <<reg[CHOOSE i \in 1..Len(reg) : reg[i].id = id]>> ELSE <<>>

\* a set that empties the map before it stores the entry
MapSetClearing(reg, skill) == <<skill>>

\* Map.prototype.set: an existing key keeps its place, a new key goes last
MapSet(reg, skill) ==
    IF has(reg, skill.id)
    THEN [i \in 1..Len(reg) |-> IF reg[i].id = skill.id THEN skill ELSE reg[i]]
    ELSE Append(reg, skill)

\* register that keeps the descriptor an id already has
registerFirstWins(reg, config) ==
    IF has(reg, config.id) THEN reg ELSE Append(reg, SkillDefinition(config))

\* register that keeps the enabled flag an id already has
registerKeepingEnabled(reg, config) ==
    IF has(reg, config.id)
    THEN MapSet(reg, [SkillDefinition(config) EXCEPT !.enabled = get(reg, config.id)[1].enabled])
    ELSE MapSet(reg, SkillDefinition(config))

register(reg, config) == MapSet(reg, SkillDefinition(config))

\* skill?.enabled
isEnabled(reg, id) == LET s == get(reg, id) IN s # <<>> /\ s[1].enabled

\* setEnabled that writes the default flag as well
setEnabledWithDefault(reg, id, enabled) ==
    [i \in 1..Len(reg) |->
        IF reg[i].id = id
        THEN [reg[i] EXCEPT !.enabled = enabled, !.defaultEnabled = enabled]
        ELSE reg[i]]

setEnabled(reg, id, enabled) ==
    [i \in 1..Len(reg) |-> IF reg[i].id = id THEN [reg[i] EXCEPT !.enabled = enabled]
                                             ELSE reg[i]]

\* a reset that enables every skill
resetToDefaultsEnablingAll(reg) ==
    [i \in 1..Len(reg) |-> [reg[i] EXCEPT !.enabled = TRUE]]

resetToDefaults(reg) ==
    [i \in 1..Len(reg) |-> [reg[i] EXCEPT !.enabled = reg[i].defaultEnabled]]

\* the elements of a sequence
Range(seq) == {seq[i] : i \in 1..Len(seq)}

\* Array.prototype.filter with a predicate given as the set of kept elements
RECURSIVE SelectIn(_, _)
SelectIn(seq, keep) ==
    IF seq = <<>> THEN <<>>
    ELSE IF Head(seq) \in keep THEN <<Head(seq)>> \o SelectIn(Tail(seq), keep)
         ELSE SelectIn(Tail(seq), keep)

\* getEnabledSkills filtering on the default flag
getEnabledSkillsByDefault(reg) == SelectIn(reg, {s \in Range(reg) : s.defaultEnabled})

getEnabledSkills(reg) == SelectIn(reg, {s \in Range(reg) : s.enabled})

getAllSkills(reg) == reg

\* the limit search applies when options.limit is undefined
DefaultLimit == 10

\* a slice that keeps the whole array
Slice0Whole(seq, end) == seq

\* Array.prototype.slice(0, end)
Slice0(seq, end) ==
    LET stop == IF end < 0 THEN (IF Len(seq) + end < 0 THEN 0 ELSE Len(seq) + end)
                ELSE (IF end > Len(seq) THEN Len(seq) ELSE end)
    IN SubSeq(seq, 1, stop)

\* the three filter tests search and filter share
passesFilters(skill, options) ==
    /\ ~(OrElse(options.enabledOnly, FALSE) /\ ~skill.enabled)
    /\ ~(options.category # <<>> /\ skill.category # options.category[1])
    /\ ~(options.tier # <<>> /\ skill.tier # options.tier[1])

filter(reg, options) == SelectIn(reg, {s \in Range(reg) : passesFilters(s, options)})

\* a term score in which an exact match also counts as a partial match
termScoreCumulative(skill, term) ==
    LET nameLower == ToLowerCase(skill.name)
        descLower == ToLowerCase(skill.description)
        keywordsLower == [i \in 1..Len(skill.keywords) |-> ToLowerCase(skill.keywords[i])]
    IN (IF nameLower = term THEN 100 ELSE 0)
       + (IF Includes(nameLower, term) THEN 50 ELSE 0)
       + (IF \E i \in 1..Len(keywordsLower) : keywordsLower[i] = term THEN 40 ELSE 0)
       + (IF \E i \in 1..Len(keywordsLower) : Includes(keywordsLower[i], term) THEN 20
          ELSE 0)
       + (IF Includes(descLower, term) THEN 10 ELSE 0)

\* one query term's contribution to the score
termScore(skill, term) ==
    LET nameLower == ToLowerCase(skill.name)
        descLower == ToLowerCase(skill.description)
        keywordsLower == [i \in 1..Len(skill.keywords) |-> ToLowerCase(skill.keywords[i])]
    IN (IF nameLower = term THEN 100 ELSE IF Includes(nameLower, term) THEN 50 ELSE 0)
       + (IF \E i \in 1..Len(keywordsLower) : keywordsLower[i] = term THEN 40
          ELSE IF \E i \in 1..Len(keywordsLower) : Includes(keywordsLower[i], term) THEN 20
          ELSE 0)
       + (IF Includes(descLower, term) THEN 10 ELSE 0)

RECURSIVE calculateRelevance(_, _)
calculateRelevance(skill, queryTerms) ==
    IF queryTerms = <<>> THEN 0
    ELSE termScore(skill, Head(queryTerms)) + calculateRelevance(skill, Tail(queryTerms))

\* collation weight of a character: blank, punctuation, then letters, case ignored
CharRank(ch) ==
    IF ch = " " THEN 1
    ELSE IF ch = "_" THEN 2
    ELSE IF LowerChar(ch) \in LowerSet THEN 10 + AlphabetIndex[LowerChar(ch)]
         ELSE 9

\* first-level comparison of two strings by collation weight: -1, 0 or 1
RECURSIVE ComparePrimary(_, _)
ComparePrimary(a, b) ==
    IF a = <<>> /\ b = <<>> THEN 0
    ELSE IF a = <<>> THEN -1
    ELSE IF b = <<>> THEN 1
    ELSE IF CharRank(Head(a)) < CharRank(Head(b)) THEN -1
    ELSE IF CharRank(Head(a)) > CharRank(Head(b)) THEN 1
    ELSE ComparePrimary(Tail(a), Tail(b))

\* case comparison of two strings equal at the first level: lower case first
RECURSIVE CompareCase(_, _)
CompareCase(a, b) ==
    IF a = <<>> \/ b = <<>> THEN 0
    ELSE IF ~IsUpper(Head(a)) /\ IsUpper(Head(b)) THEN -1
    ELSE IF IsUpper(Head(a)) /\ ~IsUpper(Head(b)) THEN 1
    ELSE CompareCase(Tail(a), Tail(b))

\* String.prototype.localeCompare
localeCompare(a, b) ==
    IF ComparePrimary(a, b) # 0 THEN ComparePrimary(a, b) ELSE CompareCase(a, b)

\* a comparator that puts the lower score first
compareResultsAscending(a, b) ==
    IF a.score - b.score # 0 THEN a.score - b.score
    ELSE localeCompare(a.skill.name, b.skill.name)

\* the comparator of search: b.score - a.score || a.name.localeCompare(b.name)
compareResults(a, b) ==
    IF b.score - a.score # 0 THEN b.score - a.score
    ELSE localeCompare(a.skill.name, b.skill.name)

\* Array.prototype.sort with that comparator; the sort is stable
RECURSIVE InsertSorted(_, _)
InsertSorted(sorted, r) ==
    IF sorted = <<>> THEN <<r>>
    ELSE IF compareResults(r, Head(sorted)) < 0 THEN <<r>> \o sorted
         ELSE <<Head(sorted)>> \o InsertSorted(Tail(sorted), r)

\* a sort that leaves the results in registry order
SortResultsUnsorted(results) == results

RECURSIVE SortResults(_)
SortResults(results) ==
    IF results = <<>> THEN <<>>
    ELSE InsertSorted(SortResults(SubSeq(results, 1, Len(results) - 1)),
                      results[Len(results)])

\* a scoring loop that keeps the skills that score 0
RECURSIVE scoreAllKeepingZero(_, _, _)
scoreAllKeepingZero(reg, queryTerms, options) ==
    IF reg = <<>> THEN <<>>
    ELSE LET skill == Head(reg)
             score == calculateRelevance(skill, queryTerms)
         IN (IF passesFilters(skill, options)
             THEN <<[skill |-> skill, score |-> score]>> ELSE <<>>)
            \o scoreAllKeepingZero(Tail(reg), queryTerms, options)

\* the scoring loop of search: the filtered skills with a positive score
RECURSIVE scoreAll(_, _, _)
scoreAll(reg, queryTerms, options) ==
    IF reg = <<>> THEN <<>>
    ELSE LET skill == Head(reg)
             score == calculateRelevance(skill, queryTerms)
         IN (IF passesFilters(skill, options) /\ score > 0
             THEN <<[skill |-> skill, score |-> score]>> ELSE <<>>)
            \o scoreAll(Tail(reg), queryTerms, options)

search(reg, query, options) ==
    LET queryLower == Trim(ToLowerCase(query))
        queryTerms == FilterBoolean(SplitWhitespace(queryLower))
        limit == OrElse(options.limit, DefaultLimit)
    IN IF queryTerms = <<>>
       THEN Slice0(filter(reg, options), limit)
       ELSE LET sorted == Slice0(SortResults(scoreAll(reg, queryTerms, options)), limit)
            IN [i \in 1..Len(sorted) |-> sorted[i].skill]

\* a step that marks the category instead of counting the skill
countSkillOnce(counts, skill) == [counts EXCEPT ![skill.category] = 1]

\* counts[skill.category]++
countSkill(counts, skill) == [counts EXCEPT ![skill.category] = @ + 1]

\* counts that leave the disabled skills out
getSkillCountsEnabled(reg) ==
    [cat \in Categories |->
        Cardinality({i \in 1..Len(reg) : reg[i].category = cat /\ reg[i].enabled})]

\* the loop of getSkillCounts from entry i on: counts[skill.category]++
RECURSIVE countFrom(_, _, _)
countFrom(counts, reg, i) ==
    IF i > Len(reg) THEN counts
    ELSE countFrom(countSkill(counts, reg[i]), reg, i + 1)

getSkillCounts(reg) == countFrom([cat \in Categories |-> 0], reg, 1)

---------------------------------------------------------------------------
(* The discover_skills tool (discover.ts) *)

\* the limit discovery passes to search
DiscoverLimit == 5

\* the order in which getSkillCounts lists the categories
CategoryOrder == <<"productivity", "developer", "network", "integrations">>

\* a discovery that searches the disabled skills too
discoverSkillsAnyEnabled(reg, query, category) ==
    LET categoryFilter == IF category = "all" THEN <<>> ELSE <<category>>
        matches == search(reg, query,
                          [category |-> categoryFilter, tier |-> <<>>,
                           enabledOnly |-> <<>>, limit |-> <<DiscoverLimit>>])
        found == [i \in 1..Len(matches) |->
                     [id |-> matches[i].id, name |-> matches[i].name,
                      description |-> matches[i].description, tier |-> matches[i].tier]]
        available == SelectIn(CategoryOrder,
                              {cat \in Categories : getSkillCounts(reg)[cat] > 0})
        message ==
            IF Len(found) = 0 THEN [kind |-> "none", query |-> query,
                                    categories |-> available, names |-> <<>>]
            ELSE IF Len(found) = 1 THEN [kind |-> "one", query |-> <<>>,
                                         categories |-> <<>>, names |-> <<found[1].name>>]
            ELSE [kind |-> "many", query |-> <<>>, categories |-> <<>>,
                  names |-> [i \in 1..Len(found) |-> found[i].name]]
    IN [ skills |-> found,
         skillIds |-> [i \in 1..Len(found) |-> found[i].id],
         message |-> message,
         query |-> query,
         category |-> category ]

\* the execute function of discoverSkillsTool; category is "all" or a category
discoverSkills(reg, query, category) ==
    LET categoryFilter == IF category = "all" THEN <<>> ELSE <<category>>
        matches == search(reg, query,
                          [category |-> categoryFilter, tier |-> <<>>,
                           enabledOnly |-> <<TRUE>>, limit |-> <<DiscoverLimit>>])
        found == [i \in 1..Len(matches) |->
                     [id |-> matches[i].id, name |-> matches[i].name,
                      description |-> matches[i].description, tier |-> matches[i].tier]]
        available == SelectIn(CategoryOrder,
                              {cat \in Categories : getSkillCounts(reg)[cat] > 0})
        message ==
            IF Len(found) = 0 THEN [kind |-> "none", query |-> query,
                                    categories |-> available, names |-> <<>>]
            ELSE IF Len(found) = 1 THEN [kind |-> "one", query |-> <<>>,
                                         categories |-> <<>>, names |-> <<found[1].name>>]
            ELSE [kind |-> "many", query |-> <<>>, categories |-> <<>>,
                  names |-> [i \in 1..Len(found) |-> found[i].name]]
    IN [ skills |-> found,
         skillIds |-> [i \in 1..Len(found) |-> found[i].id],
         message |-> message,
         query |-> query,
         category |-> category ]

\* a created tool that passes no limit to search
createDiscoverSkillsUnlimited(reg, query, category) ==
    LET categoryFilter == IF category = "all" THEN <<>> ELSE <<category>>
        matches == search(reg, query,
                          [category |-> categoryFilter, tier |-> <<>>,
                           enabledOnly |-> <<TRUE>>, limit |-> <<>>])
        found == [i \in 1..Len(matches) |->
                     [id |-> matches[i].id, name |-> matches[i].name,
                      description |-> matches[i].description, tier |-> matches[i].tier]]
        message ==
            IF Len(found) > 0 THEN [kind |-> "found", count |-> Len(found), query |-> <<>>]
            ELSE [kind |-> "none", count |-> 0, query |-> query]
    IN [ skills |-> found,
         skillIds |-> [i \in 1..Len(found) |-> found[i].id],
         message |-> message,
         query |-> query,
         category |-> category ]

\* the execute function of the tool createDiscoverSkillsTool(registry) builds
createDiscoverSkills(reg, query, category) ==
    LET categoryFilter == IF category = "all" THEN <<>> ELSE <<category>>
        matches == search(reg, query,
                          [category |-> categoryFilter, tier |-> <<>>,
                           enabledOnly |-> <<TRUE>>, limit |-> <<DiscoverLimit>>])
        found == [i \in 1..Len(matches) |->
                     [id |-> matches[i].id, name |-> matches[i].name,
                      description |-> matches[i].description, tier |-> matches[i].tier]]
        message ==
            IF Len(found) > 0 THEN [kind |-> "found", count |-> Len(found), query |-> <<>>]
            ELSE [kind |-> "none", count |-> 0, query |-> query]
    IN [ skills |-> found,
         skillIds |-> [i \in 1..Len(found) |-> found[i].id],
         message |-> message,
         query |-> query,
         category |-> category ]

---------------------------------------------------------------------------
(* ConversationToolManager (conversation-manager.ts) *)

\* Dates are milliseconds since the epoch, or InvalidDate (NaN time value)
InvalidDate == -1

Dates == {1500}

\* Date.prototype.toISOString: seconds and milliseconds as text fields; it
\* throws a RangeError on an Invalid Date
toISOStringThrows(d) == d = InvalidDate

toISOString(d) == <<"iso", d \div 1000, d % 1000>>

\* new Date(string): an ISO text parses back, any other text gives Invalid Date
newDate(str) ==
    IF Len(str) = 3 /\ str[1] = "iso" THEN str[2] * 1000 + str[3] ELSE InvalidDate

\* Array.from(set): the elements in some order, each once
RECURSIVE ArrayFrom(_)
ArrayFrom(set) ==
    IF set = {} THEN <<>>
    ELSE LET x == CHOOSE e \in set : TRUE IN <<x>> \o ArrayFrom(set \ {x})

\* a constructor that starts with the calculator unlocked
newManagerPreloaded(conversationId) ==
    [ conversationId |-> conversationId,
      loadedSkills |-> {"calculator"},
      discoveryHistory |-> <<>> ]

\* the constructor's initial state
newManager(conversationId) ==
    [ conversationId |-> conversationId,
      loadedSkills |-> {},
      discoveryHistory |-> <<>> ]

\* for (const id of skillIds) { if (skillRegistry.get(id)?.enabled) loadedSkills.add(id) }
RECURSIVE addEnabled(_, _, _)
addEnabled(loaded, skillIds, reg) ==
    IF skillIds = <<>> THEN loaded
    ELSE addEnabled(IF isEnabled(reg, Head(skillIds)) THEN loaded \cup {Head(skillIds)}
                                                      ELSE loaded,
                    Tail(skillIds), reg)

\* onSkillsDiscovered testing only that the skill exists, not that it is enabled
onSkillsDiscoveredUngated(state, reg, query, skillIds, category, now) ==
    [ state EXCEPT
        !.loadedSkills = state.loadedSkills \cup {id \in Range(skillIds) : has(reg, id)},
        !.discoveryHistory = Append(state.discoveryHistory,
            [ query |-> query, category |-> category,
              results |-> skillIds, timestamp |-> now ]) ]

\* onSkillsDiscovered recording the ids it unlocked instead of the raw skillIds
onSkillsDiscoveredLoggingUnlocked(state, reg, query, skillIds, category, now) ==
    [ state EXCEPT
        !.loadedSkills = addEnabled(state.loadedSkills, skillIds, reg),
        !.discoveryHistory = Append(state.discoveryHistory,
            [ query |-> query, category |-> category,
              results |-> SelectIn(skillIds, {id \in Range(skillIds) : isEnabled(reg, id)}),
              timestamp |-> now ]) ]

\* onSkillsDiscovered pushing a history entry only when it unlocked a new id
onSkillsDiscoveredLoggingNew(state, reg, query, skillIds, category, now) ==
    [ state EXCEPT
        !.loadedSkills = addEnabled(state.loadedSkills, skillIds, reg),
        !.discoveryHistory =
            IF addEnabled(state.loadedSkills, skillIds, reg) = state.loadedSkills
            THEN state.discoveryHistory
            ELSE Append(state.discoveryHistory,
                     [ query |-> query, category |-> category,
                       results |-> skillIds, timestamp |-> now ]) ]

onSkillsDiscovered(state, reg, query, skillIds, category, now) ==
    [ state EXCEPT
        !.loadedSkills = addEnabled(state.loadedSkills, skillIds, reg),
        !.discoveryHistory = Append(state.discoveryHistory,
            [ query |-> query, category |-> category,
              results |-> skillIds, timestamp |-> now ]) ]

\* loadSkills without the registry lookup
loadSkillsUngated(state, reg, skillIds) ==
    [ state EXCEPT !.loadedSkills = state.loadedSkills \cup Range(skillIds) ]

loadSkills(state, reg, skillIds) ==
    [ state EXCEPT !.loadedSkills = addEnabled(state.loadedSkills, skillIds, reg) ]

\* unloadSkill with the registry lookup the loading methods do
unloadSkillIfRegistered(state, skillId) ==
    IF has(skills, skillId)
    THEN [ state EXCEPT !.loadedSkills = state.loadedSkills \ {skillId} ]
    ELSE state

unloadSkill(state, skillId) ==
    [ state EXCEPT !.loadedSkills = state.loadedSkills \ {skillId} ]

\* tools[key] = value on a Record<string, Tool>
Assign(tools, key, value) ==
    [k \in DOMAIN tools \cup {key} |-> IF k = key THEN value ELSE tools[k]]

\* the loop of getToolsForRequest without the test of skill.enabled
RECURSIVE addLoadedToolsUnchecked(_, _, _)
addLoadedToolsUnchecked(tools, rest, reg) ==
    IF rest = {} THEN tools
    ELSE LET skillId == CHOOSE id \in rest : TRUE
             skill == get(reg, skillId)
         IN addLoadedToolsUnchecked(
                IF skill # <<>> /\ skill[1].tool # <<>>
                THEN Assign(tools, skill[1].id, skill[1].tool[1])
                ELSE tools,
                rest \ {skillId}, reg)

\* the loop of getToolsForRequest over the ids of loadedSkills not yet visited
RECURSIVE addLoadedTools(_, _, _)
addLoadedTools(tools, rest, reg) ==
    IF rest = {} THEN tools
    ELSE LET skillId == CHOOSE id \in rest : TRUE
             skill == get(reg, skillId)
         IN addLoadedTools(
                IF skill # <<>> /\ skill[1].enabled /\ skill[1].tool # <<>>
                THEN Assign(tools, skill[1].id, skill[1].tool[1])
                ELSE tools,
                rest \ {skillId}, reg)

getToolsForRequest(state, reg) ==
    addLoadedTools([k \in {DISCOVER} |-> discoverSkillsTool], state.loadedSkills, reg)

getLoadedSkillIds(state) == state.loadedSkills

isSkillLoaded(state, skillId) == skillId \in state.loadedSkills

getLoadedSkillCount(state) == Cardinality(state.loadedSkills)

getDiscoveryHistory(state) == state.discoveryHistory

\* the array getDiscoveryHistory returns, by identity: a new array whose
\* element i is the entry object at position i of state.discoveryHistory
returnedHistory(state) == [i \in 1..Len(state.discoveryHistory) |-> i]

\* entry.query = query on the entry object at position ref of the history
assignQuery(state, ref, query) ==
    [state EXCEPT !.discoveryHistory[ref].query = query]

\* reset that clears the unlocked skills and keeps the history
resetKeepingHistory(state) ==
    [ state EXCEPT !.loadedSkills = {} ]

reset(state) ==
    [ state EXCEPT !.loadedSkills = {}, !.discoveryHistory = <<>> ]

exportStateThrows(state) ==
    \E i \in 1..Len(state.discoveryHistory) :
        toISOStringThrows(state.discoveryHistory[i].timestamp)

exportState(state) ==
    [ conversationId |-> state.conversationId,
      loadedSkills |-> ArrayFrom(state.loadedSkills),
      discoveryHistory |->
          [i \in 1..Len(state.discoveryHistory) |->
              [ state.discoveryHistory[i] EXCEPT
                  !.timestamp = toISOString(state.discoveryHistory[i].timestamp) ]] ]

importState(data) ==
    [ conversationId |-> data.conversationId,
      loadedSkills |-> Range(data.loadedSkills),
      discoveryHistory |->
          [i \in 1..Len(data.discoveryHistory) |->
              [ data.discoveryHistory[i] EXCEPT
                  !.timestamp = newDate(data.discoveryHistory[i].timestamp) ]] ]

---------------------------------------------------------------------------
(* Inputs *)

Conversations == {"c1", "c2"}

QMath == <<"m","a","t","h">>
QWebSearch == <<"w","e","b"," ","s","e","a","r","c","h">>
QNonsense == <<"x","y","z","z","y">>

\* arguments of onSkillsDiscovered: the query, the raw skill ids, the category
DiscoveryCalls ==
    { [query |-> QMath, skillIds |-> <<"calculator">>, category |-> <<>>],
      [query |-> QNonsense, skillIds |-> <<UNKNOWN, "calculator">>,
       category |-> <<"developer">>],
      [query |-> QMath, skillIds |-> <<DISCOVER, "calculator">>, category |-> <<>>] }

\* arguments of loadSkills
LoadLists == { <<"calculator">>, <<DISCOVER, UNKNOWN>> }

\* arguments of importState that no exportState call produced
ImportInputs ==
    { [conversationId |-> "c2", loadedSkills |-> <<UNKNOWN, "calculator">>,
       discoveryHistory |-> <<>>],
      [conversationId |-> "c1", loadedSkills |-> <<DISCOVER, DISCOVER>>,
       discoveryHistory |->
           << [query |-> QMath, category |-> <<>>, results |-> <<"calculator">>,
               timestamp |-> <<"iso", 1, 500>>] >>],
      [conversationId |-> "c1", loadedSkills |-> <<>>,
       discoveryHistory |->
           << [query |-> QNonsense, category |-> <<"developer">>, results |-> <<>>,
               timestamp |-> <<"yesterday">>] >>] }

---------------------------------------------------------------------------
(* State and operations *)

Call(op, ids) == [op |-> op, ids |-> ids]

Init ==
    /\ skills = <<>>
    /\ managers = [c \in Conversations |-> <<>>]
    /\ requests = [r \in 1..MaxInFlight |-> <<>>]
    /\ discovered = [c \in Conversations |-> <<>>]
    /\ lastOp = Call("init", <<>>)

\* skillRegistry.register(config)
Register(config) ==
    /\ skills' = register(skills, config)
    /\ lastOp' = Call("register", <<config.id>>)
    /\ UNCHANGED <<managers, requests, discovered>>

\* setEnabled(id, false) that also drops the skill from every conversation
SetEnabledUnloading(id, enabled) ==
    /\ skills' = IF has(skills, id) THEN setEnabled(skills, id, enabled) ELSE skills
    /\ lastOp' = Call(IF has(skills, id) THEN "setEnabled" ELSE "setEnabled:false", <<id>>)
    /\ managers' = [c \in Conversations |->
           IF managers[c] # <<>> /\ has(skills, id) /\ ~enabled
           THEN <<unloadSkill(managers[c][1], id)>> ELSE managers[c]]
    /\ UNCHANGED <<requests, discovered>>

\* skillRegistry.setEnabled(id, enabled); an unknown id changes nothing
SetEnabled(id, enabled) ==
    /\ skills' = IF has(skills, id) THEN setEnabled(skills, id, enabled) ELSE skills
    /\ lastOp' = Call(IF has(skills, id) THEN "setEnabled" ELSE "setEnabled:false", <<id>>)
    /\ UNCHANGED <<managers, requests, discovered>>

\* skillRegistry.resetToDefaults()
ResetToDefaults ==
    /\ skills' = resetToDefaults(skills)
    /\ lastOp' = Call("resetToDefaults", <<>>)
    /\ UNCHANGED <<managers, requests, discovered>>

\* new ConversationToolManager(c)
NewManager(c) ==
    /\ managers[c] = <<>>
    /\ managers' = [managers EXCEPT ![c] = <<newManager(c)>>]
    /\ lastOp' = Call("new", <<>>)
    /\ UNCHANGED <<skills, requests, discovered>>

\* manager.onSkillsDiscovered(query, skillIds, category) at time now
OnSkillsDiscovered(c, call, now) ==
    /\ managers[c] # <<>>
    /\ Len(managers[c][1].discoveryHistory) < MaxHistory
    /\ managers' = [managers EXCEPT ![c] =
           <<onSkillsDiscovered(managers[c][1], skills, call.query, call.skillIds,
                                call.category, now)>>]
    /\ lastOp' = Call("onSkillsDiscovered", call.skillIds)
    /\ UNCHANGED <<skills, requests, discovered>>

\* manager.loadSkills(skillIds)
LoadSkills(c, skillIds) ==
    /\ managers[c] # <<>>
    /\ managers' = [managers EXCEPT ![c] = <<loadSkills(managers[c][1], skills, skillIds)>>]
    /\ lastOp' = Call("loadSkills", skillIds)
    /\ UNCHANGED <<skills, requests, discovered>>

\* unloadSkill that also takes the skill out of the tool-sets already built
UnloadSkillRevoking(c, skillId) ==
    /\ managers[c] # <<>>
    /\ managers' = [managers EXCEPT ![c] = <<unloadSkill(managers[c][1], skillId)>>]
    /\ requests' = [r \in DOMAIN requests |->
           IF requests[r] # <<>> /\ requests[r][1].tools # <<>>
           THEN <<[requests[r][1] EXCEPT !.tools =
                     <<[k \in DOMAIN requests[r][1].tools[1] \ {skillId} |->
                           requests[r][1].tools[1][k]]>>]>>
           ELSE requests[r]]
    /\ lastOp' = Call(IF isSkillLoaded(managers[c][1], skillId) THEN "unloadSkill"
                       ELSE "unloadSkill:absent", <<skillId>>)
    /\ UNCHANGED <<skills, discovered>>

\* manager.unloadSkill(skillId)
UnloadSkill(c, skillId) ==
    /\ managers[c] # <<>>
    /\ managers' = [managers EXCEPT ![c] = <<unloadSkill(managers[c][1], skillId)>>]
    /\ lastOp' = Call(IF isSkillLoaded(managers[c][1], skillId) THEN "unloadSkill"
                       ELSE "unloadSkill:absent", <<skillId>>)
    /\ UNCHANGED <<skills, requests, discovered>>

\* manager.reset()
Reset(c) ==
    /\ managers[c] # <<>>
    /\ managers' = [managers EXCEPT ![c] = <<reset(managers[c][1])>>]
    /\ lastOp' = Call("reset", <<>>)
    /\ UNCHANGED <<skills, requests, discovered>>

\* manager.importState(data) with data from outside
ImportState(c, data) ==
    /\ managers[c] # <<>>
    /\ managers' = [managers EXCEPT ![c] = <<importState(data)>>]
    /\ lastOp' = Call("importState", data.loadedSkills)
    /\ UNCHANGED <<skills, requests, discovered>>

\* manager.importState(manager.exportState())
ExportImport(c) ==
    /\ managers[c] # <<>>
    /\ ~exportStateThrows(managers[c][1])
    /\ managers' = [managers EXCEPT ![c] = <<importState(exportState(managers[c][1]))>>]
    /\ lastOp' = Call("exportImport", <<>>)
    /\ UNCHANGED <<skills, requests, discovered>>

\* the registry and one conversation manager, driven through their methods
Next ==
    \/ \E config \in CoreConfigs : Register(config)
    \/ \E id \in SkillIds, enabled \in BOOLEAN : SetEnabled(id, enabled)
    \/ ResetToDefaults
    \/ NewManager("c1")
    \/ \E call \in DiscoveryCalls, now \in Dates : OnSkillsDiscovered("c1", call, now)
    \/ \E ids \in LoadLists : LoadSkills("c1", ids)
    \/ \E id \in SkillIds : UnloadSkill("c1", id)
    \/ Reset("c1")
    \/ \E data \in ImportInputs : ImportState("c1", data)
    \/ ExportImport("c1")

Spec == Init /\ [][Next]_vars

---------------------------------------------------------------------------
(* The chat route (app/api/chat/route.ts) *)

\* the configurations initializeSkills registers, in order
builtinSkillConfigs == <<calculatorSkillConfig, webSearchSkillConfig>>

RECURSIVE registerAll(_, _)
registerAll(reg, configs) ==
    IF configs = <<>> THEN reg
    ELSE registerAll(register(reg, Head(configs)), Tail(configs))

areSkillsInitialized(reg) == Len(getAllSkills(reg)) > 0

\* loadedSkills of a request body; <<>> when the client sends none
ClientLists == { <<>>, <<"calculator", UNKNOWN>> }

\* the conversation ids of request bodies
RouteConversations == {"c1"}

\* what the model asks discover_skills for
ModelQueries == {QMath, QWebSearch}

\* a lookup that builds a new manager for every request
getOrCreateManagerAlwaysNew(mgrs, conversationId) == newManager(conversationId)

\* the manager getOrCreateManager returns for a conversation id
getOrCreateManager(mgrs, conversationId) ==
    IF mgrs[conversationId] # <<>> THEN mgrs[conversationId][1]
    ELSE newManager(conversationId)

\* the manager of a conversation after POST has loaded the client's skills
managerAfterPost(mgrs, reg, conversationId, loadedSkills) ==
    LET manager == getOrCreateManager(mgrs, conversationId)
    IN IF Len(loadedSkills) > 0 THEN loadSkills(manager, reg, loadedSkills) ELSE manager

\* tools built from a manager of the request's own, not the stored one
toolsForPostOwn(mgrs, reg, conversationId, loadedSkills) ==
    getToolsForRequest(loadSkills(newManager(conversationId), reg, loadedSkills), reg)

\* the tools POST passes to streamText
toolsForPost(mgrs, reg, conversationId, loadedSkills) ==
    getToolsForRequest(managerAfterPost(mgrs, reg, conversationId, loadedSkills), reg)

InFlight(c) == {r \in DOMAIN requests : requests[r] # <<>> /\ requests[r][1].conversationId = c}

\* module load of the route: if (!areSkillsInitialized()) initializeSkills()
InitializeSkills ==
    /\ ~areSkillsInitialized(skills)
    /\ skills' = registerAll(skills, builtinSkillConfigs)
    /\ lastOp' = Call("initializeSkills", <<>>)
    /\ UNCHANGED <<managers, requests, discovered>>

\* a chat request arrives and takes the first free slot; POST awaits
\* req.json().  Its messages carry the conversation so far, of which the
\* model keeps the result of the latest discover_skills call.
ReceiveRequest(r, c, loadedSkills) ==
    /\ areSkillsInitialized(skills)
    /\ requests[r] = <<>>
    /\ \A q \in 1..(r - 1) : requests[q] # <<>>
    /\ requests' = [requests EXCEPT ![r] =
           <<[conversationId |-> c, loadedSkills |-> loadedSkills,
              messages |-> discovered[c], pc |-> "json", tools |-> <<>>]>>]
    /\ lastOp' = Call("route", <<>>)
    /\ UNCHANGED <<skills, managers, discovered>>

\* POST with one manager shared by all conversations
PostShared(r) ==
    /\ requests[r] # <<>>
    /\ requests[r][1].pc = "json"
    /\ LET req == requests[r][1]
       IN /\ managers' = [c \in Conversations |->
                 <<managerAfterPost(managers, skills, req.conversationId, req.loadedSkills)>>]
          /\ requests' = [requests EXCEPT ![r] =
                 <<[req EXCEPT !.pc = "streaming",
                               !.tools = <<toolsForPost(managers, skills, req.conversationId,
                                                        req.loadedSkills)>>]>>]
          /\ lastOp' = Call("route", <<>>)
    /\ UNCHANGED <<skills, discovered>>

\* the body of POST after the await: get or create the manager, load the
\* client's skills, build the tools and start streaming
Post(r) ==
    /\ requests[r] # <<>>
    /\ requests[r][1].pc = "json"
    /\ LET req == requests[r][1]
       IN /\ managers' = [managers EXCEPT ![req.conversationId] =
                 <<managerAfterPost(managers, skills, req.conversationId, req.loadedSkills)>>]
          /\ requests' = [requests EXCEPT ![r] =
                 <<[req EXCEPT !.pc = "streaming",
                               !.tools = <<toolsForPost(managers, skills, req.conversationId,
                                                        req.loadedSkills)>>]>>]
          /\ lastOp' = Call("route", <<>>)
    /\ UNCHANGED <<skills, discovered>>

\* during the turn the model calls the tool offered as discover_skills; its
\* result goes back to the model
ModelCallsDiscover(r, query, category) ==
    /\ requests[r] # <<>>
    /\ requests[r][1].pc = "streaming"
    /\ requests[r][1].tools[1][DISCOVER] = discoverSkillsTool
    /\ discovered' = [discovered EXCEPT ![requests[r][1].conversationId] =
           <<discoverSkills(skills, query, category).skillIds>>]
    /\ lastOp' = Call("route", <<>>)
    /\ UNCHANGED <<skills, managers, requests>>

\* the response stream of the turn ends
FinishTurn(r) ==
    /\ requests[r] # <<>>
    /\ requests[r][1].pc = "streaming"
    /\ requests' = [requests EXCEPT ![r] = <<>>]
    /\ lastOp' = Call("route", <<>>)
    /\ UNCHANGED <<skills, managers, discovered>>

\* the chat route serving requests, with the settings action on the registry
NextRoute ==
    \/ InitializeSkills
    \/ \E id \in {"calculator", "web_search"}, enabled \in BOOLEAN : SetEnabled(id, enabled)
    \/ \E r \in 1..MaxInFlight, c \in RouteConversations, ids \in ClientLists :
           ReceiveRequest(r, c, ids)
    \/ \E r \in 1..MaxInFlight : Post(r)
    \/ \E r \in 1..MaxInFlight, query \in ModelQueries, category \in {"all", "network"} :
           ModelCallsDiscover(r, query, category)
    \/ \E r \in 1..MaxInFlight : FinishTurn(r)

SpecRoute == Init /\ [][NextRoute]_vars

---------------------------------------------------------------------------
(* The registry alone, with configurations of every tier *)

\* configurations for two ids: every tier without defaultEnabled, and a
\* supplied defaultEnabled against the tier's rule
RegistryConfigs ==
    { calculatorSkillConfig,
      [calculatorSkillConfig EXCEPT !.tier = "integration"],
      [calculatorSkillConfig EXCEPT !.defaultEnabled = <<FALSE>>],
      webSearchSkillConfig,
      [webSearchSkillConfig EXCEPT !.tier = "enhanced"],
      [webSearchSkillConfig EXCEPT !.defaultEnabled = <<TRUE>>] }

RegistryIds == {c.id : c \in RegistryConfigs} \cup {UNKNOWN}

NextRegistry ==
    \/ \E config \in RegistryConfigs : Register(config)
    \/ \E id \in RegistryIds, enabled \in BOOLEAN : SetEnabled(id, enabled)
    \/ ResetToDefaults

SpecRegistry == Init /\ [][NextRegistry]_vars

---------------------------------------------------------------------------
(* Initialization of the registry, guarded and not *)

\* initializeSkills() called without the guard of the route
CallInitializeSkills ==
    /\ skills' = registerAll(skills, builtinSkillConfigs)
    /\ lastOp' = Call("initializeSkills:direct", <<>>)
    /\ UNCHANGED <<managers, requests, discovered>>

\* the module load of the route and direct calls of initializeSkills among
\* registrations and flag changes
NextInitialize ==
    \/ NextRegistry
    \/ InitializeSkills
    \/ CallInitializeSkills

SpecInitialize == Init /\ [][NextInitialize]_vars

---------------------------------------------------------------------------
(* Searching the registry of the builtin skills *)

createNoteSkillConfig ==
    [ id |-> "create_note",
      name |-> <<"C","r","e","a","t","e"," ","N","o","t","e">>,
      description |->
          <<"C","r","e","a","t","e"," ","o","r"," ","u","p","d","a","t","e"," ","a"," ","n","o","t","e"," ","w","i","t","h"," ","a"," ","t","i","t","l","e"," ","a","n","d"," ","c","o","n","t","e","n","t">>,
      keywords |-> << <<"n","o","t","e">>, <<"n","o","t","e","s">>, <<"s","a","v","e">>, <<"w","r","i","t","e">>, <<"r","e","m","e","m","b","e","r">>, <<"s","t","o","r","e">>, <<"c","r","e","a","t","e">>, <<"j","o","t">> >>,
      tier |-> "core", category |-> "productivity",
      requiresApproval |-> <<>>, requiresNetwork |-> <<>>, defaultEnabled |-> <<>>,
      tool |-> "createNoteTool" ]

readNoteSkillConfig ==
    [ id |-> "read_note",
      name |-> <<"R","e","a","d"," ","N","o","t","e">>,
      description |->
          <<"R","e","a","d"," ","a"," ","s","a","v","e","d"," ","n","o","t","e"," ","b","y"," ","i","t","s"," ","t","i","t","l","e">>,
      keywords |-> << <<"n","o","t","e">>, <<"n","o","t","e","s">>, <<"r","e","a","d">>, <<"g","e","t">>, <<"r","e","t","r","i","e","v","e">>, <<"r","e","c","a","l","l">>, <<"f","i","n","d">> >>,
      tier |-> "core", category |-> "productivity",
      requiresApproval |-> <<>>, requiresNetwork |-> <<>>, defaultEnabled |-> <<>>,
      tool |-> "readNoteTool" ]

listNotesSkillConfig ==
    [ id |-> "list_notes",
      name |-> <<"L","i","s","t"," ","N","o","t","e","s">>,
      description |->
          <<"L","i","s","t"," ","a","l","l"," ","s","a","v","e","d"," ","n","o","t","e","s"," ","w","i","t","h"," ","o","p","t","i","o","n","a","l"," ","s","e","a","r","c","h">>,
      keywords |-> << <<"n","o","t","e">>, <<"n","o","t","e","s">>, <<"l","i","s","t">>, <<"a","l","l">>, <<"s","h","o","w">>, <<"b","r","o","w","s","e">>, <<"s","e","a","r","c","h">> >>,
      tier |-> "core", category |-> "productivity",
      requiresApproval |-> <<>>, requiresNetwork |-> <<>>, defaultEnabled |-> <<>>,
      tool |-> "listNotesTool" ]

deleteNoteSkillConfig ==
    [ id |-> "delete_note",
      name |-> <<"D","e","l","e","t","e"," ","N","o","t","e">>,
      description |->
          <<"D","e","l","e","t","e"," ","a"," ","s","a","v","e","d"," ","n","o","t","e">>,
      keywords |-> << <<"n","o","t","e">>, <<"n","o","t","e","s">>, <<"d","e","l","e","t","e">>, <<"r","e","m","o","v","e">>, <<"e","r","a","s","e">> >>,
      tier |-> "core", category |-> "productivity",
      requiresApproval |-> <<>>, requiresNetwork |-> <<>>, defaultEnabled |-> <<>>,
      tool |-> "deleteNoteTool" ]

createTaskSkillConfig ==
    [ id |-> "create_task",
      name |-> <<"C","r","e","a","t","e"," ","T","a","s","k">>,
      description |->
          <<"C","r","e","a","t","e"," ","a"," ","n","e","w"," ","t","a","s","k","/","t","o","d","o"," ","w","i","t","h"," ","p","r","i","o","r","i","t","y"," ","a","n","d"," ","d","u","e"," ","d","a","t","e">>,
      keywords |-> << <<"t","a","s","k">>, <<"t","o","d","o">>, <<"c","r","e","a","t","e">>, <<"a","d","d">>, <<"n","e","w">>, <<"r","e","m","i","n","d","e","r">>, <<"d","e","a","d","l","i","n","e">> >>,
      tier |-> "core", category |-> "productivity",
      requiresApproval |-> <<>>, requiresNetwork |-> <<>>, defaultEnabled |-> <<>>,
      tool |-> "createTaskTool" ]

listTasksSkillConfig ==
    [ id |-> "list_tasks",
      name |-> <<"L","i","s","t"," ","T","a","s","k","s">>,
      description |->
          <<"L","i","s","t"," ","a","n","d"," ","f","i","l","t","e","r"," ","t","a","s","k","s"," ","b","y"," ","s","t","a","t","u","s"," ","a","n","d"," ","p","r","i","o","r","i","t","y">>,
      keywords |-> << <<"t","a","s","k">>, <<"t","o","d","o">>, <<"l","i","s","t">>, <<"s","h","o","w">>, <<"p","e","n","d","i","n","g">>, <<"t","a","s","k","s">>, <<"t","o","d","o","s">> >>,
      tier |-> "core", category |-> "productivity",
      requiresApproval |-> <<>>, requiresNetwork |-> <<>>, defaultEnabled |-> <<>>,
      tool |-> "listTasksTool" ]

updateTaskSkillConfig ==
    [ id |-> "update_task",
      name |-> <<"U","p","d","a","t","e"," ","T","a","s","k">>,
      description |->
          <<"U","p","d","a","t","e"," ","t","a","s","k"," ","s","t","a","t","u","s",","," ","p","r","i","o","r","i","t","y",","," ","o","r"," ","d","e","t","a","i","l","s">>,
      keywords |-> << <<"t","a","s","k">>, <<"t","o","d","o">>, <<"u","p","d","a","t","e">>, <<"c","h","a","n","g","e">>, <<"m","o","d","i","f","y">>, <<"e","d","i","t">> >>,
      tier |-> "core", category |-> "productivity",
      requiresApproval |-> <<>>, requiresNetwork |-> <<>>, defaultEnabled |-> <<>>,
      tool |-> "updateTaskTool" ]

completeTaskSkillConfig ==
    [ id |-> "complete_task",
      name |-> <<"C","o","m","p","l","e","t","e"," ","T","a","s","k">>,
      description |->
          <<"M","a","r","k"," ","a"," ","t","a","s","k"," ","a","s"," ","c","o","m","p","l","e","t","e","d">>,
      keywords |-> << <<"t","a","s","k">>, <<"t","o","d","o">>, <<"c","o","m","p","l","e","t","e">>, <<"d","o","n","e">>, <<"f","i","n","i","s","h">>, <<"c","h","e","c","k">> >>,
      tier |-> "core", category |-> "productivity",
      requiresApproval |-> <<>>, requiresNetwork |-> <<>>, defaultEnabled |-> <<>>,
      tool |-> "completeTaskTool" ]

deleteTaskSkillConfig ==
    [ id |-> "delete_task",
      name |-> <<"D","e","l","e","t","e"," ","T","a","s","k">>,
      description |->
          <<"D","e","l","e","t","e"," ","a"," ","t","a","s","k"," ","p","e","r","m","a","n","e","n","t","l","y">>,
      keywords |-> << <<"t","a","s","k">>, <<"t","o","d","o">>, <<"d","e","l","e","t","e">>, <<"r","e","m","o","v","e">> >>,
      tier |-> "core", category |-> "productivity",
      requiresApproval |-> <<>>, requiresNetwork |-> <<>>, defaultEnabled |-> <<>>,
      tool |-> "deleteTaskTool" ]

\* the notes and tasks skills of builtinSkillConfigs after the calculator,
\* then a network skill and the skill named like the discovery tool
catalogConfigs ==
    << calculatorSkillConfig,
       createNoteSkillConfig, readNoteSkillConfig, listNotesSkillConfig,
       deleteNoteSkillConfig,
       createTaskSkillConfig, listTasksSkillConfig, updateTaskSkillConfig,
       completeTaskSkillConfig, deleteTaskSkillConfig,
       webSearchSkillConfig, shadowSkillConfig >>

\* the largest limit passed to search
MaxLimit == 2

QEmpty == <<>>
QNote == <<"N","o","t","e">>
QTaskList == <<"t","a","s","k"," "," ","l","i","s","t">>

SearchQueries == {QEmpty, QNote, QTaskList}

\* the filter fields of SkillSearchOptions: none, category with enabledOnly,
\* tier with enabledOnly false
SearchFilters ==
    { [category |-> <<>>, tier |-> <<>>, enabledOnly |-> <<>>],
      [category |-> <<"productivity">>, tier |-> <<>>, enabledOnly |-> <<TRUE>>],
      [category |-> <<>>, tier |-> <<"core">>, enabledOnly |-> <<FALSE>>] }

\* SkillSearchOptions: the filters with limit undefined or 0..MaxLimit
SearchOptions ==
    { [category |-> f.category, tier |-> f.tier, enabledOnly |-> f.enabledOnly,
       limit |-> l] :
          f \in SearchFilters, l \in {<<>>} \cup {<<k>> : k \in 0..MaxLimit} }

idsOf(results) == [i \in 1..Len(results) |-> results[i].id]

\* skillRegistry.search(query, options); the registry is only read
Search(query, options) ==
    /\ lastOp' = Call("search", idsOf(search(skills, query, options)))
    /\ UNCHANGED <<skills, managers, requests, discovered>>

\* the builtin skills registered in the order of the list, one skill switched
\* off and on, and searches in between
NextSearch ==
    \/ \E n \in 1..Len(catalogConfigs) :
           n = Len(skills) + 1 /\ Register(catalogConfigs[n])
    \/ \E enabled \in BOOLEAN : SetEnabled("read_note", enabled)
    \/ \E query \in SearchQueries, options \in SearchOptions : Search(query, options)

SpecSearch == Init /\ [][NextSearch]_vars

---------------------------------------------------------------------------
(* Every operation of the registry on two ids *)

\* skillRegistry.getEnabledSkills(); the registry is only read
GetEnabledSkills ==
    /\ lastOp' = Call("getEnabledSkills", idsOf(getEnabledSkills(skills)))
    /\ UNCHANGED <<skills, managers, requests, discovered>>

\* registrations, flag changes and resets, with searches and views in between
NextRegistryViews ==
    \/ NextRegistry
    \/ \E query \in {QMath, QWebSearch}, options \in SearchOptions :
           Search(query, options)
    \/ GetEnabledSkills

SpecRegistryViews == Init /\ [][NextRegistryViews]_vars

---------------------------------------------------------------------------
(* The discover_skills tool run on the registry of the builtin skills *)

\* the query and category arguments of discover_skills
DiscoverQueries == {QMath, QNote, QTaskList, QNonsense, <<" ", " ">>}
DiscoverCategories == {"all", "productivity", "network"}

\* a discovery call a conversation reports to its manager
DiscoverCall == [query |-> QMath, skillIds |-> <<"calculator">>, category |-> <<>>]

\* a discovery that unlocks what it found in every conversation
DiscoverUnlocking(query, category) ==
    LET result == discoverSkills(skills, query, category)
    IN /\ lastOp' = Call("discover", result.skillIds)
       /\ managers' = [c \in DOMAIN managers |->
              IF managers[c] = <<>> THEN <<>>
              ELSE <<loadSkills(managers[c][1], skills, result.skillIds)>>]
       /\ UNCHANGED <<skills, requests, discovered>>

\* discoverSkillsTool.execute({query, category}); it returns its result
Discover(query, category) ==
    /\ lastOp' = Call("discover", discoverSkills(skills, query, category).skillIds)
    /\ UNCHANGED <<skills, managers, requests, discovered>>

\* the builtin skills registered in the order of the list, one skill switched
\* off and on, a conversation that is told of a discovery, and discoveries
NextDiscover ==
    \/ \E n \in 1..Len(catalogConfigs) :
           n = Len(skills) + 1 /\ Register(catalogConfigs[n])
    \/ \E enabled \in BOOLEAN : SetEnabled("read_note", enabled)
    \/ NewManager("c1")
    \/ OnSkillsDiscovered("c1", DiscoverCall, 1500)
    \/ \E query \in DiscoverQueries, category \in DiscoverCategories :
           Discover(query, category)

SpecDiscover == Init /\ [][NextDiscover]_vars

---------------------------------------------------------------------------
(* A caller that changes the array getDiscoveryHistory returned *)

\* manager.getDiscoveryHistory().push(entry): the array is the caller's own
HistoryPush(c) ==
    /\ managers[c] # <<>>
    /\ lastOp' = Call("history.push", <<>>)
    /\ UNCHANGED <<skills, managers, requests, discovered>>

\* manager.getDiscoveryHistory()[i - 1].query = query: the element is the
\* entry object the manager holds
HistoryAlter(c, i, query) ==
    /\ managers[c] # <<>>
    /\ i \in DOMAIN returnedHistory(managers[c][1])
    /\ managers' = [managers EXCEPT ![c] =
           <<assignQuery(managers[c][1], returnedHistory(managers[c][1])[i], query)>>]
    /\ lastOp' = Call("history.alter", <<>>)
    /\ UNCHANGED <<skills, requests, discovered>>

NextHistory ==
    \/ Register(calculatorSkillConfig)
    \/ \E c \in Conversations : NewManager(c)
    \/ \E c \in Conversations : OnSkillsDiscovered(c, DiscoverCall, 1500)
    \/ \E c \in Conversations : HistoryPush(c)
    \/ \E c \in Conversations, i \in 1..MaxHistory : HistoryAlter(c, i, QNonsense)

SpecHistory == Init /\ [][NextHistory]_vars

---------------------------------------------------------------------------
(* The chat route serving two conversations, one request at a time *)

NextChat ==
    \/ InitializeSkills
    \/ \E enabled \in BOOLEAN : SetEnabled("calculator", enabled)
    \/ \E c \in Conversations, ids \in ClientLists : ReceiveRequest(1, c, ids)
    \/ Post(1)
    \/ \E query \in ModelQueries : ModelCallsDiscover(1, query, "all")
    \/ FinishTurn(1)

SpecChat == Init /\ [][NextChat]_vars

---------------------------------------------------------------------------
(* Requests in flight at once, of one conversation or of two *)

\* requests interleave at the await of POST and while their responses stream
NextRace ==
    \/ InitializeSkills
    \/ \E r \in 1..MaxInFlight, c \in Conversations, ids \in ClientLists :
           ReceiveRequest(r, c, ids)
    \/ \E r \in 1..MaxInFlight : Post(r)
    \/ \E r \in 1..MaxInFlight : FinishTurn(r)

SpecRace == Init /\ [][NextRace]_vars

---------------------------------------------------------------------------
(* Changes to the registry and to a manager while a turn is in flight *)

NextTurn ==
    \/ NextChat
    \/ \E c \in Conversations : UnloadSkill(c, "calculator")
    \/ \E c \in Conversations : Reset(c)

SpecTurn == Init /\ [][NextTurn]_vars

---------------------------------------------------------------------------
(* The discovery tool of the module and one created for a registry *)

\* createDiscoverSkillsTool(registry).execute({query, category})
CreatedDiscover(query, category) ==
    /\ lastOp' = Call("createdDiscover", createDiscoverSkills(skills, query, category).skillIds)
    /\ UNCHANGED <<skills, managers, requests, discovered>>

NextCreated ==
    \/ \E n \in 1..Len(catalogConfigs) :
           n = Len(skills) + 1 /\ Register(catalogConfigs[n])
    \/ \E enabled \in BOOLEAN : SetEnabled("read_note", enabled)
    \/ \E query \in DiscoverQueries, category \in DiscoverCategories :
           Discover(query, category)
    \/ \E query \in DiscoverQueries, category \in DiscoverCategories :
           CreatedDiscover(query, category)

SpecCreated == Init /\ [][NextCreated]_vars

---------------------------------------------------------------------------
(* Two conversations served by the route, their managers also driven directly *)

\* the call, the list and the exported state the two managers are driven with
TwoCall == [query |-> QMath, skillIds |-> <<"calculator">>, category |-> <<>>]

TwoImport ==
    [conversationId |-> "c1", loadedSkills |-> <<DISCOVER, DISCOVER>>,
     discoveryHistory |->
         << [query |-> QMath, category |-> <<>>, results |-> <<"calculator">>,
             timestamp |-> <<"iso", 1, 500>>] >>]

NextTwo ==
    \/ InitializeSkills
    \/ \E c \in Conversations, ids \in ClientLists : ReceiveRequest(1, c, ids)
    \/ Post(1)
    \/ FinishTurn(1)
    \/ \E c \in Conversations, now \in Dates : OnSkillsDiscovered(c, TwoCall, now)
    \/ \E c \in Conversations : LoadSkills(c, <<"calculator">>)
    \/ \E c \in Conversations : UnloadSkill(c, "calculator")
    \/ \E c \in Conversations : Reset(c)
    \/ \E c \in Conversations : ImportState(c, TwoImport)

SpecTwo == Init /\ [][NextTwo]_vars

---------------------------------------------------------------------------
(* Properties *)

\* the ids the registry holds with enabled = true, read off the map directly
EnabledIds(reg) == {reg[i].id : i \in {j \in 1..Len(reg) : reg[j].enabled}}

RegisteredIds(reg) == {reg[i].id : i \in 1..Len(reg)}

Loaded(c) == IF managers[c] = <<>> THEN {} ELSE managers[c][1].loadedSkills

History(c) == IF managers[c] = <<>> THEN <<>> ELSE managers[c][1].discoveryHistory

\* C1: the keys of getToolsForRequest() are exactly discover_skills plus the
\* unlocked ids that are registered and enabled at the moment of the call.
C1_ToolKeysExact ==
    \A c \in Conversations :
        managers[c] # <<>> =>
            DOMAIN getToolsForRequest(managers[c][1], skills)
                = {DISCOVER} \cup (Loaded(c) \cap EnabledIds(skills))

\* C1 witness: an unlocked enabled skill is offered while an unlocked disabled
\* skill and an unlocked unregistered id are not.
C1_Witness ==
    /\ {"calculator", UNKNOWN} \subseteq Loaded("c1")
    /\ "calculator" \in RegisteredIds(skills) \ EnabledIds(skills)
    /\ DISCOVER \in Loaded("c1") \cap EnabledIds(skills)

\* C2: whatever was registered and unlocked, the name discover_skills maps to
\* the Discovery capability in the tool-set.
C2_DiscoverIsDiscovery ==
    \A c \in Conversations :
        managers[c] # <<>> =>
            getToolsForRequest(managers[c][1], skills)[DISCOVER] = discoverSkillsTool

\* C3: when a request without client loadedSkills is served after a
\* discover_skills call of an earlier turn of its conversation returned
\* skillIds, the tools it passes to the model contain every returned id that
\* is enabled.
C3_DiscoveredOfferedNextTurn ==
    [][\A r \in 1..MaxInFlight :
          (/\ Post(r)
           /\ requests[r][1].loadedSkills = <<>>
           /\ requests[r][1].messages # <<>>)
          => \A id \in Range(requests[r][1].messages[1]) :
                 id \in EnabledIds(skills) => id \in DOMAIN requests'[r][1].tools[1]]_vars

\* C4: onSkillsDiscovered makes unlockedSkillIds the union of its old value
\* with the ids of skillIds that are registered and enabled at call time.
C4_DiscoveredUnionGated ==
    [][\A c \in Conversations, call \in DiscoveryCalls, now \in Dates :
          OnSkillsDiscovered(c, call, now)
          => managers'[c][1].loadedSkills
                 = Loaded(c) \cup (Range(call.skillIds) \cap EnabledIds(skills))]_vars

\* C4 witness: a discovery naming a disabled registered skill and an enabled
\* one unlocked only the enabled one.
C4_Witness ==
    /\ lastOp = Call("onSkillsDiscovered", <<DISCOVER, "calculator">>)
    /\ DISCOVER \in RegisteredIds(skills) \ EnabledIds(skills)
    /\ Loaded("c1") = {"calculator"}

\* the tool-set does not offer the skill id: its id is no key, or the key is
\* the discovery tool's own name and maps to the discovery tool
Omits(tools, id) ==
    id \notin DOMAIN tools \/ (id = DISCOVER /\ tools[id] = discoverSkillsTool)

\* C5: register, setEnabled and resetToDefaults leave every manager's
\* unlockedSkillIds unchanged, and after them a disabled unlocked skill is
\* omitted from getToolsForRequest() while isSkillLoaded stays true.
C5_DisabledOmittedNotForgotten ==
    [][((\E config \in Configs : Register(config))
        \/ (\E id \in SkillIds, enabled \in BOOLEAN : SetEnabled(id, enabled))
        \/ ResetToDefaults)
       => /\ \A c \in Conversations : managers'[c] = managers[c]
          /\ \A c \in Conversations : \A id \in Loaded(c) :
                 /\ isSkillLoaded(managers'[c][1], id)
                 /\ id \notin EnabledIds(skills')
                        => Omits(getToolsForRequest(managers'[c][1], skills'), id)]_vars

\* C5 witness: the calculator was unlocked and then disabled.
C5_Witness ==
    /\ lastOp = Call("setEnabled", <<"calculator">>)
    /\ "calculator" \in Loaded("c1")
    /\ "calculator" \in RegisteredIds(skills) \ EnabledIds(skills)

\* C6: every id that enters unlockedSkillIds is, at that moment, the id of a
\* registered and enabled descriptor.
C6_AddedOnlyWhenEnabled ==
    [][\A c \in Conversations :
          managers'[c] # <<>> =>
              (managers'[c][1].loadedSkills \ Loaded(c)) \subseteq EnabledIds(skills)]_vars

\* C7: onSkillsDiscovered appends one entry with the query, the category and
\* the raw skillIds, and keeps the earlier entries.
C7_HistoryAppended ==
    [][\A c \in Conversations, call \in DiscoveryCalls, now \in Dates :
          OnSkillsDiscovered(c, call, now)
          => LET old == History(c)
                 new == managers'[c][1].discoveryHistory
             IN /\ Len(new) = Len(old) + 1
                /\ SubSeq(new, 1, Len(old)) = old
                /\ new[Len(new)].query = call.query
                /\ new[Len(new)].category = call.category
                /\ new[Len(new)].results = call.skillIds]_vars

\* C7 witness: a discovery that unlocked nothing is in the history with its
\* raw ids, after an earlier entry.
C7_Witness ==
    /\ lastOp = Call("onSkillsDiscovered", <<UNKNOWN, "calculator">>)
    /\ Loaded("c1") = {}
    /\ Len(History("c1")) = 2
    /\ History("c1")[2].results = <<UNKNOWN, "calculator">>

\* C8: from any reachable manager and registry, two onSkillsDiscovered calls
\* with the same skillIds leave unlockedSkillIds after the second call as it
\* was after the first, and the history two entries longer than before.
C8_SecondDiscoveryIdempotent ==
    \A c \in Conversations :
        managers[c] # <<>> =>
            \A first \in DiscoveryCalls, second \in DiscoveryCalls, now \in Dates :
                first.skillIds = second.skillIds =>
                    LET once == onSkillsDiscovered(managers[c][1], skills, first.query,
                                                   first.skillIds, first.category, now)
                        twice == onSkillsDiscovered(once, skills, second.query,
                                                    second.skillIds, second.category, now)
                    IN /\ twice.loadedSkills = once.loadedSkills
                       /\ Len(twice.discoveryHistory) = Len(History(c)) + 2
                       /\ twice.discoveryHistory[Len(History(c)) + 1].results
                              = first.skillIds
                       /\ twice.discoveryHistory[Len(History(c)) + 2].results
                              = second.skillIds

\* C8 witness: two discoveries in a row with the same ids, a skill unlocked.
C8_Witness ==
    /\ lastOp = Call("onSkillsDiscovered", <<"calculator">>)
    /\ Len(History("c1")) = 2
    /\ History("c1")[1].results = <<"calculator">>
    /\ History("c1")[2].results = <<"calculator">>
    /\ Loaded("c1") = {"calculator"}

\* C9: loadSkills adds exactly the registered, enabled ids of its argument,
\* as onSkillsDiscovered would, and leaves discoveryHistory unchanged.
C9_LoadSkillsGatedNoHistory ==
    [][\A c \in Conversations, ids \in LoadLists :
          LoadSkills(c, ids)
          => /\ managers'[c][1].loadedSkills
                    = Loaded(c) \cup (Range(ids) \cap EnabledIds(skills))
             /\ managers'[c][1].loadedSkills
                    = onSkillsDiscovered(managers[c][1], skills, QMath, ids, <<>>, 0)
                          .loadedSkills
             /\ managers'[c][1].discoveryHistory = History(c)]_vars

\* C9 witness: loadSkills with an enabled id and an unknown id, on a manager
\* with a history.
C9_Witness ==
    /\ lastOp = Call("loadSkills", <<DISCOVER, UNKNOWN>>)
    /\ DISCOVER \in Loaded("c1")
    /\ UNKNOWN \notin Loaded("c1")
    /\ History("c1") # <<>>

\* C10: unloadSkill(id) removes exactly id, registered or not, and changes
\* nothing else; with id not in the set the manager is unchanged.
C10_UnloadRemovesExactlyId ==
    [][\A c \in Conversations, id \in SkillIds :
          UnloadSkill(c, id)
          => /\ managers'[c][1].loadedSkills = Loaded(c) \ {id}
             /\ managers'[c][1].discoveryHistory = History(c)
             /\ managers'[c][1].conversationId = managers[c][1].conversationId
             /\ id \notin Loaded(c) => managers'[c] = managers[c]]_vars

\* C10 witness: an unregistered id was removed while another id stayed.
C10_Witness ==
    /\ lastOp = Call("unloadSkill", <<UNKNOWN>>)
    /\ UNKNOWN \notin RegisteredIds(skills)
    /\ Loaded("c1") = {"calculator"}
    /\ History("c1") # <<>>

\* C11: reset() empties unlockedSkillIds and discoveryHistory, keeps the
\* conversationId and the registry, and getToolsForRequest() then returns
\* exactly the discover_skills tool.
C11_ResetClears ==
    [][\A c \in Conversations :
          Reset(c)
          => /\ managers'[c][1].loadedSkills = {}
             /\ managers'[c][1].discoveryHistory = <<>>
             /\ managers'[c][1].conversationId = managers[c][1].conversationId
             /\ skills' = skills
             /\ getToolsForRequest(managers'[c][1], skills')
                    = [k \in {DISCOVER} |-> discoverSkillsTool]]_vars

\* C11 witness: reset ran on a manager whose conversationId came from an
\* import, with enabled skills in the registry.
C11_Witness ==
    /\ lastOp = Call("reset", <<>>)
    /\ managers["c1"][1].conversationId = "c2"
    /\ Loaded("c1") = {} /\ History("c1") = <<>>
    /\ {"calculator", DISCOVER} \subseteq EnabledIds(skills)

C13_FirstRequestOnlyDiscover ==
    [][\A r \in 1..MaxInFlight :
          (Post(r) /\ managers[requests[r][1].conversationId] = <<>>)
          => LET req == requests[r][1]
             IN /\ getOrCreateManager(managers, req.conversationId).loadedSkills = {}
                /\ getOrCreateManager(managers, req.conversationId).discoveryHistory = <<>>
                /\ req.loadedSkills = <<>>
                       => /\ requests'[r][1].tools[1]
                                 = [k \in {DISCOVER} |-> discoverSkillsTool]
                          /\ managers'[req.conversationId][1].loadedSkills = {}
                          /\ managers'[req.conversationId][1].discoveryHistory = <<>>]_vars

\* C13 witness: the request for c2, without loadedSkills, is streaming with
\* only discover_skills and c2's manager is empty, while the registry holds
\* enabled skills and conversation c1 has the calculator unlocked.
C13_Witness ==
    /\ requests[1] # <<>>
    /\ requests[1][1].conversationId = "c2"
    /\ requests[1][1].pc = "streaming"
    /\ requests[1][1].loadedSkills = <<>>
    /\ requests[1][1].tools[1] = [k \in {DISCOVER} |-> discoverSkillsTool]
    /\ managers["c2"] # <<>> /\ Loaded("c2") = {} /\ History("c2") = <<>>
    /\ Loaded("c1") = {"calculator"}
    /\ "calculator" \in EnabledIds(skills)

\* a manager operation on conversation c, or a step of a chat request for c
OperationOn(c) ==
    \/ \E now \in Dates : OnSkillsDiscovered(c, TwoCall, now)
    \/ LoadSkills(c, <<"calculator">>)
    \/ UnloadSkill(c, "calculator")
    \/ Reset(c)
    \/ ImportState(c, TwoImport)
    \/ \E ids \in ClientLists : ReceiveRequest(1, c, ids)
    \/ requests[1] # <<>> /\ requests[1][1].conversationId = c /\ (Post(1) \/ FinishTurn(1))

\* C14: an operation on one conversation's manager, or a chat request for
\* that conversation, leaves the manager of every other conversation as it
\* was, and a request for an id that has a manager is served by that manager.
C14_ConversationsIsolated ==
    [][\A c \in Conversations :
          OperationOn(c)
          => /\ \A d \in Conversations \ {c} : managers'[d] = managers[d]
             /\ (Post(1) /\ managers[c] # <<>>)
                    => /\ getOrCreateManager(managers, c) = managers[c][1]
                       /\ managers'[c][1].conversationId = managers[c][1].conversationId
                       /\ Loaded(c) \subseteq managers'[c][1].loadedSkills
                       /\ managers'[c][1].discoveryHistory = History(c)]_vars

\* C14 witness: c2 was just reset while c1 keeps its unlocked skill and its
\* history.
C14_Witness ==
    /\ lastOp = Call("reset", <<>>)
    /\ managers["c2"] # <<>> /\ Loaded("c2") = {} /\ History("c2") = <<>>
    /\ Loaded("c1") = {"calculator"}
    /\ Len(History("c1")) = 1

\* C15: ids are unique in the registry.  register(config) makes the registered
\* ids the earlier ids plus config.id, and get(config.id) then returns the
\* descriptor built from config, also when the id was registered before; no
\* other operation changes the registered ids, so the number of descriptors
\* is the number of distinct ids ever registered.
C15_LastRegistrationWins ==
    [][/\ Len(skills') = Cardinality(RegisteredIds(skills'))
       /\ \A config \in RegistryConfigs :
              Register(config)
              => /\ RegisteredIds(skills') = RegisteredIds(skills) \cup {config.id}
                 /\ get(skills', config.id) = <<SkillDefinition(config)>>
                 /\ \A id \in RegisteredIds(skills) \ {config.id} :
                        get(skills', id) = get(skills, id)
       /\ ~(\E config \in RegistryConfigs : Register(config))
              => RegisteredIds(skills') = RegisteredIds(skills)]_vars

\* C15 witness: the calculator, registered before web_search, was registered
\* again with another tier and the registry holds two descriptors.
C15_Witness ==
    /\ lastOp = Call("register", <<"calculator">>)
    /\ Len(skills) = 2
    /\ skills[1].id = "calculator" /\ skills[1].tier = "integration"
    /\ skills[2].id = "web_search"

\* C16: right after register(config) the descriptor's enabled equals its
\* defaultEnabled, and both equal config.defaultEnabled when it is supplied,
\* otherwise they are true exactly for the tiers core and enhanced.
C16_RegisteredFlagsFromConfig ==
    [][\A config \in RegistryConfigs :
          Register(config)
          => LET skill == get(skills', config.id)[1]
             IN /\ skill.enabled = skill.defaultEnabled
                /\ config.defaultEnabled # <<>>
                       => skill.defaultEnabled = config.defaultEnabled[1]
                /\ config.defaultEnabled = <<>>
                       => skill.defaultEnabled = (config.tier \in {"core", "enhanced"})]_vars

\* C16 witness: web_search was just registered as a network skill with
\* defaultEnabled true, next to a core calculator registered with
\* defaultEnabled false.
C16_Witness ==
    /\ lastOp = Call("register", <<"web_search">>)
    /\ get(skills, "web_search")[1].tier = "network"
    /\ get(skills, "web_search")[1].enabled
    /\ has(skills, "calculator")
    /\ get(skills, "calculator")[1].tier = "core"
    /\ ~get(skills, "calculator")[1].defaultEnabled

\* C17: setEnabled(id, e) on an unknown id returns false and leaves the
\* registry unchanged; on a known id it returns true and changes only that
\* descriptor's enabled, which becomes e.
C17_SetEnabledOnlyThatFlag ==
    [][\A id \in RegistryIds, e \in BOOLEAN :
          SetEnabled(id, e)
          => IF id \notin RegisteredIds(skills)
             THEN lastOp'.op = "setEnabled:false" /\ skills' = skills
             ELSE /\ lastOp'.op = "setEnabled"
                  /\ Len(skills') = Len(skills)
                  /\ \A i \in 1..Len(skills) :
                         skills'[i] = IF skills[i].id = id
                                      THEN [skills[i] EXCEPT !.enabled = e]
                                      ELSE skills[i]]_vars

\* C17 witness: setEnabled on an unknown id returned false on a registry of
\* two descriptors, one of which an earlier setEnabled had switched away
\* from its default.
C17_Witness ==
    /\ lastOp = Call("setEnabled:false", <<UNKNOWN>>)
    /\ Len(skills) = 2
    /\ get(skills, "calculator")[1].defaultEnabled
    /\ ~get(skills, "calculator")[1].enabled

\* C18: getEnabledSkills() returns exactly the registered descriptors whose
\* enabled flag is true, each once; a descriptor whose flag is false, as
\* after setEnabled(id, false), is not among them.
C18_EnabledSkillsExact ==
    LET result == getEnabledSkills(skills)
    IN /\ Range(result) = {skills[i] : i \in {j \in 1..Len(skills) : skills[j].enabled}}
       /\ Len(result) = Cardinality(EnabledIds(skills))
       /\ \A i \in 1..Len(skills) :
              ~skills[i].enabled
                  => \A k \in 1..Len(result) : result[k].id # skills[i].id

\* C18 witness: the calculator, enabled by default, was just disabled and
\* getEnabledSkills() returns web_search alone.
C18_Witness ==
    /\ lastOp = Call("setEnabled", <<"calculator">>)
    /\ get(skills, "calculator")[1].defaultEnabled
    /\ ~get(skills, "calculator")[1].enabled
    /\ Len(getEnabledSkills(skills)) = 1
    /\ getEnabledSkills(skills)[1].id = "web_search"

\* C19: resetToDefaults() sets every descriptor's enabled to its
\* defaultEnabled and changes nothing else, a second resetToDefaults()
\* changes nothing, and defaultEnabled stays what registration gave it,
\* since only register writes it.
C19_ResetRestoresDefaults ==
    [][/\ ResetToDefaults
          => /\ Len(skills') = Len(skills)
             /\ \A i \in 1..Len(skills) :
                    skills'[i] = [skills[i] EXCEPT !.enabled = skills[i].defaultEnabled]
             /\ resetToDefaults(skills') = skills'
       /\ ~(\E config \in RegistryConfigs : Register(config))
          => /\ RegisteredIds(skills') = RegisteredIds(skills)
             /\ \A id \in RegisteredIds(skills) :
                    get(skills', id)[1].defaultEnabled = get(skills, id)[1].defaultEnabled]_vars

\* C19 witness: after resetToDefaults() a core skill registered with
\* defaultEnabled false is disabled and a network skill registered with
\* defaultEnabled true is enabled.
C19_Witness ==
    /\ lastOp = Call("resetToDefaults", <<>>)
    /\ Len(skills) = 2
    /\ get(skills, "calculator")[1].tier = "core"
    /\ ~get(skills, "calculator")[1].enabled
    /\ get(skills, "web_search")[1].tier = "network"
    /\ get(skills, "web_search")[1].enabled

\* C20: for every registry, query, filters and limit k, search returns at
\* most k descriptors, and at most 10 when no limit is given.
C20_SearchAtMostLimit ==
    \A query \in SearchQueries, options \in SearchOptions :
        Len(search(skills, query, options))
            <= (IF options.limit = <<>> THEN 10 ELSE options.limit[1])

\* C20 witness: a search ran on a registry where twelve skills pass an
\* empty query, of which ten are returned without a limit, and where four
\* skills score on a query, of which two are returned with limit 2.
C20_Witness ==
    /\ lastOp.op = "search"
    /\ Len(lastOp.ids) = 10
    /\ Len(filter(skills, [category |-> <<>>, tier |-> <<>>, enabledOnly |-> <<>>,
                           limit |-> <<>>])) = 12
    /\ Len(search(skills, QEmpty, [category |-> <<>>, tier |-> <<>>,
                                   enabledOnly |-> <<>>, limit |-> <<>>])) = 10
    /\ Len(scoreAll(skills, <<ToLowerCase(QNote)>>,
                    [category |-> <<>>, tier |-> <<>>, enabledOnly |-> <<>>,
                     limit |-> <<2>>])) = 4
    /\ Len(search(skills, QNote, [category |-> <<>>, tier |-> <<>>,
                                  enabledOnly |-> <<>>, limit |-> <<2>>])) = 2

\* the terms search scores a query by
termsOf(query) == FilterBoolean(SplitWhitespace(Trim(ToLowerCase(query))))

\* the limit search applies for the options
limitOf(options) == IF options.limit = <<>> THEN 10 ELSE options.limit[1]

\* the score of every registered skill for the terms, in registry order
RECURSIVE ScoresOf(_, _)
ScoresOf(reg, terms) ==
    IF reg = <<>> THEN <<>>
    ELSE <<calculateRelevance(Head(reg), terms)>> \o ScoresOf(Tail(reg), terms)

\* the place of a registered skill in the registry
IndexOf(reg, skill) == CHOOSE i \in 1..Len(reg) : reg[i].id = skill.id

\* with scores sa and sb, skill a stands at or before skill b in the full
\* ordering: higher score first, equal scores by ascending name
RanksAtOrBefore(a, sa, b, sb) ==
    sa > sb \/ (sa = sb /\ localeCompare(a.name, b.name) <= 0)

\* C21: for a non-empty query the list search returns is in descending score
\* with equal scores in ascending name, and it is the first limit elements of
\* the full ordering of the skills that pass the filters and score above 0;
\* a search step leaves the registry as it was, so a repeated call with the
\* same arguments returns the same list.
C21_SearchOrdered ==
    /\ [](\A query \in SearchQueries :
             termsOf(query) # <<>> =>
                 LET scores == ScoresOf(skills, termsOf(query))
                 IN \A options \in SearchOptions :
                        LET result == search(skills, query, options)
                            at == [i \in 1..Len(result) |-> IndexOf(skills, result[i])]
                            all == {k \in 1..Len(skills) :
                                       passesFilters(skills[k], options) /\ scores[k] > 0}
                        IN /\ \A i \in 1..Len(result) : result[i] = skills[at[i]]
                           /\ \A i \in 1..Len(result) : \A j \in (i + 1)..Len(result) :
                                  /\ at[i] # at[j]
                                  /\ RanksAtOrBefore(result[i], scores[at[i]],
                                                     result[j], scores[at[j]])
                           /\ Range(at) \subseteq all
                           /\ Len(result) = IF Cardinality(all) < limitOf(options)
                                            THEN Cardinality(all) ELSE limitOf(options)
                           /\ \A k \in all \ Range(at) : \A i \in 1..Len(result) :
                                  RanksAtOrBefore(result[i], scores[at[i]],
                                                  skills[k], scores[k]))
    /\ [][lastOp'.op = "search" => skills' = skills]_vars

\* C21 witness: a search ran on a registry whose four note skills tie on the
\* query and were registered in another order than that of their names; with
\* limit 2 the search returns the two first by name.
C21_Witness ==
    /\ lastOp = Call("search", <<"create_note", "delete_note">>)
    /\ idsOf(search(skills, QNote, [category |-> <<>>, tier |-> <<>>,
                                    enabledOnly |-> <<>>, limit |-> <<2>>]))
           = <<"create_note", "delete_note">>
    /\ \A id \in {"create_note", "read_note", "list_notes", "delete_note"} :
           /\ has(skills, id)
           /\ calculateRelevance(get(skills, id)[1], termsOf(QNote)) = 100

\* queries whose tokens equal a name, lie inside a name, equal or lie inside
\* a keyword, lie inside a description, match nothing, or repeat
QCalculator == <<"C","a","l","c","u","l","a","t","o","r">>
QCalcMath == <<"c","a","l","c"," ","m","a","t","h">>
QNoteNote == <<"n","o","t","e"," ","N","O","T","E">>

ScoreQueries == {QNote, QTaskList, QCalculator, QCalcMath, QNoteNote, QNonsense}

\* what the name, the keywords and the description of a skill give one token
NamePoints(skill, token) ==
    IF ToLowerCase(skill.name) = token THEN 100
    ELSE IF Includes(ToLowerCase(skill.name), token) THEN 50 ELSE 0

KeywordPoints(skill, token) ==
    IF \E i \in 1..Len(skill.keywords) : ToLowerCase(skill.keywords[i]) = token THEN 40
    ELSE IF \E i \in 1..Len(skill.keywords) :
                Includes(ToLowerCase(skill.keywords[i]), token) THEN 20
    ELSE 0

DescriptionPoints(skill, token) ==
    IF Includes(ToLowerCase(skill.description), token) THEN 10 ELSE 0

RECURSIVE SumOver(_, _)
SumOver(skill, tokens) ==
    IF tokens = <<>> THEN 0
    ELSE NamePoints(skill, Head(tokens)) + KeywordPoints(skill, Head(tokens))
         + DescriptionPoints(skill, Head(tokens)) + SumOver(skill, Tail(tokens))

\* C22: the relevance score of a registered descriptor for the tokens of a
\* query is the sum, over the tokens with repetitions, of 100 or 50 for the
\* name, 40 or 20 for the keywords and 10 for the description.
C22_ScoreIsSumOverTokens ==
    \A query \in ScoreQueries : \A i \in 1..Len(skills) :
        calculateRelevance(skills[i], termsOf(query)) = SumOver(skills[i], termsOf(query))

\* C22 witness: a search ran on a registry where the calculator scores 100
\* for its name, 70 and 50 for two tokens that match partly, and a note skill
\* scores twice 100 for a token given twice.
C22_Witness ==
    /\ lastOp.op = "search" /\ lastOp.ids # <<>>
    /\ has(skills, "calculator") /\ has(skills, "create_note")
    /\ calculateRelevance(get(skills, "calculator")[1], termsOf(QCalculator)) = 100
    /\ calculateRelevance(get(skills, "calculator")[1], termsOf(QCalcMath)) = 120
    /\ calculateRelevance(get(skills, "create_note")[1], termsOf(QNoteNote)) = 200
    /\ calculateRelevance(get(skills, "create_note")[1], termsOf(QNonsense)) = 0

\* queries that match skills of two categories and of two tiers
FilterQueries == {QNote, QMath, QWebSearch}

\* the registry with every enabled flag set
AllEnabled(reg) == [i \in 1..Len(reg) |-> [reg[i] EXCEPT !.enabled = TRUE]]

\* C23: every descriptor search returns for a non-empty query is registered,
\* scores above 0 and satisfies each supplied filter: its category and its
\* tier equal the given ones and it is enabled when enabledOnly is true.
\* When enabledOnly is not true the enabled flags do not matter: the search
\* returns the skills it would return with every skill enabled, so a disabled
\* descriptor that matches is returned.
C23_ResultsMatchAndPassFilters ==
    \A query \in FilterQueries : \A options \in SearchOptions :
        LET result == search(skills, query, options)
        IN /\ \A i \in 1..Len(result) :
                  /\ result[i] \in Range(skills)
                  /\ SumOver(result[i], termsOf(query)) > 0
                  /\ options.category # <<>> => result[i].category = options.category[1]
                  /\ options.tier # <<>> => result[i].tier = options.tier[1]
                  /\ options.enabledOnly = <<TRUE>> => result[i].enabled
           /\ options.enabledOnly # <<TRUE>>
                  => idsOf(result) = idsOf(search(AllEnabled(skills), query, options))

\* C23 witness: read_note is disabled; a search for notes without filters and
\* limit returns it with the three other note skills, a search with
\* enabledOnly returns the three others only, and the tier filter keeps
\* web_search out of a search that matches it.
C23_Witness ==
    /\ lastOp = Call("search", <<"create_note", "delete_note", "list_notes", "read_note">>)
    /\ ~get(skills, "read_note")[1].enabled
    /\ idsOf(search(skills, QNote, [category |-> <<"productivity">>, tier |-> <<>>,
                                    enabledOnly |-> <<TRUE>>, limit |-> <<>>]))
           = <<"create_note", "delete_note", "list_notes">>
    /\ has(skills, "web_search")
    /\ SumOver(get(skills, "web_search")[1], termsOf(QWebSearch)) > 0
    /\ \A id \in Range(idsOf(search(skills, QWebSearch,
                                      [category |-> <<>>, tier |-> <<"core">>,
                                       enabledOnly |-> <<FALSE>>, limit |-> <<>>]))) :
           id # "web_search"

\* queries without a term: the empty string and strings of whitespace
QSpaces == <<" ", " ">>
QBlank == <<"\t", " ", "\n">>

BlankQueries == {QEmpty, QSpaces, QBlank}

\* the places in the registry of the skills that satisfy the supplied filters
Passing(reg, options) ==
    {k \in 1..Len(reg) :
        /\ options.enabledOnly = <<TRUE>> => reg[k].enabled
        /\ options.category # <<>> => reg[k].category = options.category[1]
        /\ options.tier # <<>> => reg[k].tier = options.tier[1]}

\* C24: for an empty or whitespace-only query search returns the first
\* limit descriptors, in registry insertion order, of those that satisfy the
\* category, tier and enabledOnly filters; no descriptor is left out for not
\* matching and none is moved by a score.
C24_BlankQueryFiltersOnly ==
    \A query \in BlankQueries : \A options \in SearchOptions :
        LET result == search(skills, query, options)
            pass == Passing(skills, options)
        IN /\ Len(result) = IF Cardinality(pass) < limitOf(options)
                            THEN Cardinality(pass) ELSE limitOf(options)
           /\ \A i \in 1..Len(result) :
                  \E k \in pass : /\ Cardinality({j \in pass : j < k}) = i - 1
                                  /\ result[i] = skills[k]

\* C24 witness: a search ran on the twelve skills with read_note disabled; a
\* whitespace query with limit 2 returns the two skills registered first,
\* which are not the two first by name, and with the category and
\* enabledOnly filters and no limit it returns the nine productivity skills
\* that are enabled, in registration order.
C24_Witness ==
    /\ lastOp.op = "search"
    /\ Len(skills) = 12
    /\ ~get(skills, "read_note")[1].enabled
    /\ idsOf(search(skills, QBlank, [category |-> <<>>, tier |-> <<>>,
                                     enabledOnly |-> <<>>, limit |-> <<2>>]))
           = <<"calculator", "create_note">>
    /\ idsOf(search(skills, QSpaces, [category |-> <<"productivity">>, tier |-> <<>>,
                                      enabledOnly |-> <<TRUE>>, limit |-> <<>>]))
           = <<"calculator", "create_note", "list_notes", "delete_note", "create_task",
               "list_tasks", "update_task", "complete_task", "delete_task">>

\* queries and the extra token a query is extended with
QWeb == <<"w","e","b">>
TList == <<"l","i","s","t">>
TSearch == <<"s","e","a","r","c","h">>

BaseQueries == {QNote, QTaskList, QWeb}
ExtraTokens == {TList, TSearch}

\* the query followed by a blank and the token
Extended(query, token) == query \o <<" ">> \o token

\* the token equals the lower-cased name of the skill or lies inside it
MatchesName(skill, token) == Includes(ToLowerCase(skill.name), token)

\* the places of a skill id in a result list
Places(result, id) == {i \in 1..Len(result) : result[i].id = id}

\* skill a is in the list, and skill b is after it or not in the list
ListedAtOrAbove(result, a, b) ==
    /\ Places(result, a) # {}
    /\ \A i \in Places(result, a), j \in Places(result, b) : i < j

\* C25: when a token matches the name of skill A and not the name of skill
\* B, and A is ranked at or above B by search for a query, then for the query
\* extended with the token B is not ranked above A: if B is returned then A
\* is returned before it, and A is returned unless the limit cuts the list.
C25_NameMatchKeepsRank ==
    \A query \in BaseQueries, token \in ExtraTokens :
        \A filters \in SearchFilters, limit \in {<<>>, <<MaxLimit>>} :
            LET options == [category |-> filters.category, tier |-> filters.tier,
                            enabledOnly |-> filters.enabledOnly, limit |-> limit]
                before == search(skills, query, options)
                after == search(skills, Extended(query, token), options)
            IN \A i \in 1..Len(before), k \in 1..Len(skills) :
                   (/\ MatchesName(before[i], token)
                    /\ ~MatchesName(skills[k], token)
                    /\ ListedAtOrAbove(before, before[i].id, skills[k].id))
                   => /\ Places(after, skills[k].id) # {}
                             => ListedAtOrAbove(after, before[i].id, skills[k].id)
                      /\ Len(after) < limitOf(options)
                             => Places(after, before[i].id) # {}

\* C25 witness: a search ran on a registry where web_search is the only
\* result for one query, and for that query extended with a token that
\* matches its name list_notes is returned too, after web_search.
C25_Witness ==
    /\ lastOp.op = "search"
    /\ idsOf(search(skills, QWeb, [category |-> <<>>, tier |-> <<>>,
                                   enabledOnly |-> <<>>, limit |-> <<>>]))
           = <<"web_search">>
    /\ idsOf(search(skills, Extended(QWeb, TSearch),
                    [category |-> <<>>, tier |-> <<>>, enabledOnly |-> <<>>,
                     limit |-> <<>>]))
           = <<"web_search", "list_notes">>
    /\ MatchesName(get(skills, "web_search")[1], TSearch)
    /\ ~MatchesName(get(skills, "list_notes")[1], TSearch)

\* the options discovery gives search for a category argument
DiscoveryOptions(category) ==
    [category |-> IF category = "all" THEN <<>> ELSE <<category>>,
     tier |-> <<>>, enabledOnly |-> <<TRUE>>, limit |-> <<5>>]

\* C26: a discovery with query q and category c returns as skills the id,
\* name, description and tier of the descriptors search returns for q with
\* the category filter (none for "all"), enabledOnly and limit 5, in the same
\* order, and as skillIds their ids; so it returns at most 5 skills, each
\* enabled and each of category c unless c is "all".
C26_DiscoveryProjectsSearch ==
    \A query \in DiscoverQueries, category \in DiscoverCategories :
        LET result == discoverSkills(skills, query, category)
            matches == search(skills, query, DiscoveryOptions(category))
        IN /\ Len(result.skills) = Len(matches)
           /\ \A i \in 1..Len(matches) :
                  result.skills[i] = [id |-> matches[i].id, name |-> matches[i].name,
                                      description |-> matches[i].description,
                                      tier |-> matches[i].tier]
           /\ Len(result.skillIds) = Len(matches)
           /\ \A i \in 1..Len(matches) : result.skillIds[i] = matches[i].id
           /\ Len(result.skills) <= 5
           /\ \A i \in 1..Len(result.skillIds) :
                  /\ result.skillIds[i] \in EnabledIds(skills)
                  /\ category # "all"
                         => get(skills, result.skillIds[i])[1].category = category

\* C26 witness: with read_note disabled and more than five enabled skills
\* registered, a discovery returned the three enabled note skills, and a
\* discovery with a whitespace query would return five skills.
C26_Witness ==
    /\ lastOp = Call("discover", <<"create_note", "delete_note", "list_notes">>)
    /\ has(skills, "read_note") /\ "read_note" \notin EnabledIds(skills)
    /\ Cardinality(EnabledIds(skills)) > 5
    /\ Len(discoverSkills(skills, <<" ", " ">>, "all").skills) = 5

\* the names of the descriptors search returns for a discovery, in order
MatchNames(query, category) ==
    LET matches == search(skills, query, DiscoveryOptions(category))
    IN [i \in 1..Len(matches) |-> matches[i].name]

\* C27: the message of a discovery depends on the number of matches: with no
\* match it is the no-match message with the query and the categories that
\* have a registered skill, and skills and skillIds are empty; with one match
\* it names that skill; with several it names all of them in order.
C27_MessageByMatchCount ==
    \A query \in DiscoverQueries, category \in DiscoverCategories :
        LET result == discoverSkills(skills, query, category)
            names == MatchNames(query, category)
            listed == result.message.categories
        IN /\ Len(names) = 0 =>
                 /\ result.message.kind = "none"
                 /\ result.message.query = query
                 /\ Range(listed) = {skills[i].category : i \in 1..Len(skills)}
                 /\ \A i, j \in 1..Len(listed) : listed[i] = listed[j] => i = j
                 /\ result.skills = <<>> /\ result.skillIds = <<>>
           /\ Len(names) = 1 =>
                 result.message.kind = "one" /\ result.message.names = names
           /\ Len(names) > 1 =>
                 result.message.kind = "many" /\ result.message.names = names

\* C27 witness: all builtin skills are registered, web_search (the only
\* network skill) is disabled, a discovery found nothing, and discoveries
\* with one match and with several matches are possible.
C27_Witness ==
    /\ lastOp = Call("discover", <<>>)
    /\ Len(skills) = Len(catalogConfigs)
    /\ "web_search" \notin EnabledIds(skills)
    /\ discoverSkills(skills, QNonsense, "all").message.categories
          = <<"productivity", "developer", "network">>
    /\ Len(MatchNames(QMath, "productivity")) = 1
    /\ Len(MatchNames(QNote, "all")) > 1

\* C28: executing a discovery changes neither the registry (descriptors,
\* enabled flags, order) nor any conversation manager (unlocked skills,
\* discovery history).
C28_DiscoveryStateless ==
    [][lastOp'.op = "discover" => skills' = skills /\ managers' = managers]_vars

\* C28 witness: a discovery returned skills that conversation c1, which has
\* a history entry and the calculator unlocked, has not unlocked.
C28_Witness ==
    /\ lastOp.op = "discover"
    /\ Range(lastOp.ids) # {} /\ Range(lastOp.ids) \cap Loaded("c1") = {}
    /\ Loaded("c1") = {"calculator"}
    /\ Len(History("c1")) = 1
    /\ "read_note" \in RegisteredIds(skills) \ EnabledIds(skills)

C30_NeverLosesDescriptor ==
    [][\A id \in RegistryIds : has(skills, id) => has(skills', id)]_vars

\* C30 witness: both ids are registered, one was registered again and one is
\* disabled, and a reset, a search or a view has just run.
C30_Witness ==
    /\ lastOp.op \in {"resetToDefaults", "search", "getEnabledSkills"}
    /\ RegisteredIds(skills) = {"calculator", "web_search"}
    /\ get(skills, "calculator")[1].tier = "integration"
    /\ EnabledIds(skills) # RegisteredIds(skills)

\* the number of registered descriptors of a category
Registered(cat) == Cardinality({i \in 1..Len(skills) : skills[i].category = cat})

\* C31: getSkillCounts gives a count for each of the four categories, equal
\* to the number of registered descriptors of the category, enabled or not
\* (0 when there is none), so the counts add up to the number of registered
\* skills.
C31_CountsByCategory ==
    LET counts == getSkillCounts(skills)
    IN /\ DOMAIN counts = {"productivity", "developer", "network", "integrations"}
       /\ \A cat \in DOMAIN counts : counts[cat] = Registered(cat)
       /\ counts["productivity"] + counts["developer"] + counts["network"]
             + counts["integrations"] = Len(skills)

\* C31 witness: a discovery without a match has read the counts of a
\* registry with ten productivity skills (one disabled), one developer skill,
\* one disabled network skill and no integration.
C31_Witness ==
    /\ lastOp = Call("discover", <<>>)
    /\ getSkillCounts(skills) = [productivity |-> 10, developer |-> 1,
                                 network |-> 1, integrations |-> 0]
    /\ {"read_note", "web_search"} \cap EnabledIds(skills) = {}

\* C32: what a caller does to the array getDiscoveryHistory returned (adding,
\* removing or altering entries) changes no manager's history as later
\* getDiscoveryHistory and exportState calls see it.
C32_ReturnedHistoryIsCopy ==
    [][lastOp'.op \in {"history.push", "history.alter"} =>
          \A c \in Conversations :
              managers[c] # <<>> =>
                  /\ getDiscoveryHistory(managers'[c][1]) = getDiscoveryHistory(managers[c][1])
                  /\ exportState(managers'[c][1]) = exportState(managers[c][1])]_vars

\* C33: the chat route never evicts or resets a conversation manager: over
\* any sequence of chat requests a conversation id that has a manager keeps
\* it, and the manager's unlocked set only grows.
C33_ManagersOnlyGrow ==
    [][\A c \in Conversations :
          managers[c] # <<>> =>
              /\ managers'[c] # <<>>
              /\ managers[c][1].loadedSkills \subseteq managers'[c][1].loadedSkills]_vars

\* C33 witness: both conversations have a manager, c1 has the calculator
\* unlocked, and a later request of c1 that sent no loadedSkills has been
\* served while the calculator is disabled.
C33_Witness ==
    /\ managers["c2"] # <<>>
    /\ Loaded("c1") = {"calculator"}
    /\ requests[1] # <<>>
    /\ requests[1][1].conversationId = "c1" /\ requests[1][1].pc = "streaming"
    /\ requests[1][1].loadedSkills = <<>>
    /\ "calculator" \notin EnabledIds(skills)

\* C34: a skill unlocked in a conversation, then disabled, then enabled again
\* is offered again by that conversation's getToolsForRequest without a new
\* discovery or loadSkills call: setEnabled leaves every manager as it was,
\* so the id stays unlocked, and every unlocked id whose descriptor is
\* enabled and has a tool is a key of the tool-set with that tool.
C34_ReenabledSkillReappears ==
    /\ [](\A c \in Conversations : \A id \in Loaded(c) :
            LET skill == get(skills, id)
                tools == getToolsForRequest(managers[c][1], skills)
            IN (skill # <<>> /\ skill[1].enabled /\ skill[1].tool # <<>>)
                   => id \in DOMAIN tools /\ tools[id] = skill[1].tool[1])
    /\ [][lastOp'.op \in {"setEnabled", "setEnabled:false"}
             => managers' = managers]_vars

\* C34 witness: c1 unlocked the calculator, a turn of c1 that sent no
\* loadedSkills got a tool-set without it while it was disabled, and
\* setEnabled has just enabled it again, so the next tool-set offers it.
C34_Witness ==
    /\ lastOp = Call("setEnabled", <<"calculator">>)
    /\ "calculator" \in Loaded("c1") \cap EnabledIds(skills)
    /\ requests[1] # <<>>
    /\ requests[1][1].conversationId = "c1" /\ requests[1][1].pc = "streaming"
    /\ requests[1][1].loadedSkills = <<>>
    /\ "calculator" \notin DOMAIN requests[1][1].tools[1]
    /\ "calculator" \in DOMAIN getToolsForRequest(managers["c1"][1], skills)

\* the enabled flag a configuration asks for: defaultEnabled when given,
\* else whether the tier is core or enhanced
ConfigDefault(config) ==
    IF config.defaultEnabled # <<>> THEN config.defaultEnabled[1]
    ELSE config.tier \in {"core", "enhanced"}

\* C35: registering a configuration discards the enabled state its id had:
\* after register the flag is the configuration's default, so a second
\* initializeSkills puts every builtin skill back to its default; and the
\* route initializes only a registry without any skill.
C35_ReregisterResetsEnabled ==
    /\ [][\A config \in RegistryConfigs :
             Register(config) => get(skills', config.id)[1].enabled = ConfigDefault(config)]_vars
    /\ [][CallInitializeSkills =>
             \A i \in 1..Len(builtinSkillConfigs) :
                 get(skills', builtinSkillConfigs[i].id)[1].enabled
                     = ConfigDefault(builtinSkillConfigs[i])]_vars
    /\ [][lastOp'.op = "initializeSkills" => skills = <<>>]_vars

\* C35 witness: initializeSkills was called on a registry that already held
\* both builtin ids (web_search first, which initializeSkills alone never
\* produces), and both flags are the defaults of the builtin configurations.
C35_Witness ==
    /\ lastOp = Call("initializeSkills:direct", <<>>)
    /\ idsOf(skills) = <<"web_search", "calculator">>
    /\ EnabledIds(skills) = {"calculator"}

\* C36: when several requests of one conversation id are in flight, each
\* request's lookup or creation of the manager, its loadSkills call and its
\* tool-set build act as one step on the single manager stored for the id:
\* the step leaves a manager for the id that keeps what earlier requests
\* unlocked, the tool-set is the one of that stored manager, and no other
\* request changes in the step.
C36_OneManagerPerConversation ==
    [][\A r \in 1..MaxInFlight :
          Post(r) =>
              LET c == requests[r][1].conversationId
              IN /\ managers'[c] # <<>>
                 /\ Loaded(c) \subseteq managers'[c][1].loadedSkills
                 /\ requests'[r][1].tools = <<getToolsForRequest(managers'[c][1], skills)>>
                 /\ \A q \in 1..MaxInFlight : q # r => requests'[q] = requests[q]]_vars

\* C36 witness: two requests of c1 are in flight; the first sent no
\* loadedSkills and got only discover_skills, the second sent the calculator
\* and got it from the same manager, which now has it unlocked.
C36_Witness ==
    /\ requests[1] # <<>> /\ requests[2] # <<>>
    /\ requests[1][1].conversationId = "c1" /\ requests[2][1].conversationId = "c1"
    /\ requests[1][1].pc = "streaming" /\ requests[2][1].pc = "streaming"
    /\ requests[1][1].loadedSkills = <<>>
    /\ DOMAIN requests[1][1].tools[1] = {DISCOVER}
    /\ "calculator" \in DOMAIN requests[2][1].tools[1]
    /\ Loaded("c1") = {"calculator"}

\* C37: the tool-set of a turn is a snapshot: setEnabled, unloadSkill and
\* reset leave the tool-set of every request in flight as it was built, and
\* a skill that is disabled or no longer unlocked is omitted from what
\* getToolsForRequest returns from then on.
C37_ToolSetIsSnapshot ==
    /\ [][lastOp'.op \in {"setEnabled", "setEnabled:false", "unloadSkill",
                           "unloadSkill:absent", "reset"}
             => requests' = requests]_vars
    /\ [](\A c \in Conversations : \A id \in RegisteredIds(skills) :
            (managers[c] # <<>> /\ (id \notin Loaded(c) \/ id \notin EnabledIds(skills)))
                => Omits(getToolsForRequest(managers[c][1], skills), id))

\* C37 witness: a turn of c1 is streaming with the calculator in its
\* tool-set, the calculator has just been disabled, and the tool-set the
\* manager would build now omits it.
C37_Witness ==
    /\ lastOp = Call("setEnabled", <<"calculator">>)
    /\ "calculator" \notin EnabledIds(skills)
    /\ requests[1] # <<>>
    /\ requests[1][1].conversationId = "c1" /\ requests[1][1].pc = "streaming"
    /\ "calculator" \in DOMAIN requests[1][1].tools[1]
    /\ "calculator" \in Loaded("c1")
    /\ Omits(getToolsForRequest(managers["c1"][1], skills), "calculator")

\* C38: on the same registry, query and category the tool built by
\* createDiscoverSkillsTool returns the same skills, skillIds, query and
\* category as discoverSkillsTool; only the message differs.
C38_CreatedToolAgrees ==
    \A query \in DiscoverQueries, category \in DiscoverCategories :
        LET created == createDiscoverSkills(skills, query, category)
            module == discoverSkills(skills, query, category)
        IN /\ created.skills = module.skills
           /\ created.skillIds = module.skillIds
           /\ created.query = module.query
           /\ created.category = module.category

\* C38 witness: the created tool ran on the registry of all builtin skills
\* with read_note disabled and returned the three enabled note skills; for a
\* whitespace query both tools return five skills.
C38_Witness ==
    /\ lastOp = Call("createdDiscover", <<"create_note", "delete_note", "list_notes">>)
    /\ Len(skills) = Len(catalogConfigs)
    /\ "read_note" \notin EnabledIds(skills)
    /\ Len(createDiscoverSkills(skills, <<" ", " ">>, "all").skills) = 5
    /\ createDiscoverSkills(skills, QNote, "all").message
          # discoverSkills(skills, QNote, "all").message

=============================================================================
